---------------------------- MODULE Spec2Model ----------------------------
(***************************************************************************)
(* Explosive-synchronization sweeps of wuwywu/paper-repeat:                *)
(*   sync/explosive_sync/explosive_sync_piecewise_Rossler.ipynb            *)
(* The file holds two notebooks: the piecewise-Rossler sweep (lines 1-298) *)
(* and the adaptive Kuramoto sweep (lines 300-667).  Each defines net (one *)
(* sweep over a coupling-strength sequence) and Parallel_net (the forward  *)
(* and the backward sweep under numba's prange).                           *)
(*                                                                         *)
(* Numbers.  The code computes in float64.  Here every float is a          *)
(* fixed-point integer v standing for v/Q, products and quotients are      *)
(* rounded down, and angles are rounded to the nearest eighth of a turn    *)
(* before a sine or cosine is taken.  A non-finite float (NaN, Inf) is the *)
(* single value NaN, which every operation propagates as IEEE 754 does.    *)
(* Same-named objects of the two notebooks carry the suffix _K (Kuramoto). *)
(***************************************************************************)
EXTENDS Integers, Sequences, FiniteSets, TLC

\* ------------------------------------------------------------------ bounds
\* Largest node count N tried.
MaxN == 3
\* Longest coupling-strength sequence tried.
MaxLen == 2
\* Steps of the uncoupled warm-up loop (the code: 1_0000).
WarmN == 1
\* Steps of a relaxation loop (the code: 1_0000 and 200_00).
RelaxN == 2
\* Steps of an accumulation loop, cal_n (the code: 10_0000 and 3000_00).
CalN == 2
\* Largest start position of a thread's random stream.
MaxGen == 1

\* --------------------------------------------------------------- numbers
\* Fixed-point resolution: the integer v stands for the float v/Q.
Q == 10^3
\* The non-finite float.
NaN == -(2^30)
\* np.pi at resolution Q.
Pi == 3142
TwoPi == 2 * Pi

IsNaN(a) == a = NaN
FAdd(a, b) == IF IsNaN(a) \/ IsNaN(b) THEN NaN ELSE a + b
FSub(a, b) == IF IsNaN(a) \/ IsNaN(b) THEN NaN ELSE a - b
FNeg(a) == IF IsNaN(a) THEN NaN ELSE 0 - a
\* Product of two fixed-point numbers.
FMul(a, b) == IF IsNaN(a) \/ IsNaN(b) THEN NaN ELSE (a * b) \div Q
\* Product of a plain number n (an int, a count) and a fixed-point number.
FScale(n, a) == IF IsNaN(a) THEN NaN ELSE n * a
\* Quotient of a fixed-point number by a plain number; x/0 is non-finite.
FDiv(a, n) == IF IsNaN(a) \/ n = 0 THEN NaN ELSE a \div n

Max(a, b) == IF a >= b THEN a ELSE b
Abs(a) == IF a < 0 THEN 0 - a ELSE a

RECURSIVE SqrtSearch(_, _, _)
SqrtSearch(v, lo, hi) ==
    IF lo >= hi THEN lo
    ELSE LET mid == (lo + hi + 1) \div 2
         IN IF mid * mid <= v THEN SqrtSearch(v, mid, hi)
            ELSE SqrtSearch(v, lo, mid - 1)
\* np.sqrt of a non-negative plain integer, rounded down.
ISqrt(v) == SqrtSearch(v, 0, 46340)

\* cos and sin of k eighths of a turn, at resolution Q, rounded toward 0.
CosTab == <<1000, 707, 0, -707, -1000, -707, 0, 707>>
SinTab == <<0, 707, 1000, 707, 0, -707, -1000, -707>>
\* The eighth of a turn nearest to the angle a (radians at resolution Q).
Octant(a) == (((a % TwoPi) * 8 + Pi) \div TwoPi) % 8
Cos(a) == IF IsNaN(a) THEN NaN ELSE CosTab[Octant(a) + 1]
Sin(a) == IF IsNaN(a) THEN NaN ELSE SinTab[Octant(a) + 1]

\* np.arctan2(y, x): the angle of (x, y), to the nearest eighth of a turn,
\* in (-pi, pi]; arctan2(0, 0) = 0.  414/1000 is tan(pi/8).
ArcTan2(y, x) ==
    IF IsNaN(y) \/ IsNaN(x) THEN NaN
    ELSE LET ax == Abs(x)
             ay == Abs(y)
             k == IF ay * 1000 <= 414 * ax THEN 0
                  ELSE IF ax * 1000 < 414 * ay THEN 2
                  ELSE 1
             \* the octant of (|x|, |y|) mirrored into the quadrant of (x, y)
             o == IF x >= 0 THEN (IF y >= 0 THEN k ELSE 0 - k)
                  ELSE (IF y >= 0 THEN 4 - k ELSE IF k = 0 THEN 4 ELSE k - 4)
         IN (o * TwoPi) \div 8

\* A complex number is [re, im]; np.exp(1j * a).
Exp1j(a) == [re |-> Cos(a), im |-> Sin(a)]
CAdd(u, v) == [re |-> FAdd(u.re, v.re), im |-> FAdd(u.im, v.im)]
CDiv(u, n) == [re |-> FDiv(u.re, n), im |-> FDiv(u.im, n)]
\* np.abs of a complex number.
CAbs(u) ==
    IF IsNaN(u.re) \/ IsNaN(u.im) THEN NaN
    ELSE ISqrt(u.re * u.re + u.im * u.im)

\* ---------------------------------------------------------------- arrays
\* A 1-d array of length n is a function on 0..n-1; an index array (pre_ids,
\* post_ids) is a sequence of node indices, in the order np.nonzero gives.
Len0(a) == Cardinality(DOMAIN a)
\* The array f with every element computed once (the same function as f).
Arr(f) == f @@ [z \in {} |-> 0]

RECURSIVE SumTo(_, _)
\* np.sum of the complex array c over 0..n-1, in index order.
SumTo(c, n) ==
    IF n = 0 THEN [re |-> 0, im |-> 0] ELSE CAdd(SumTo(c, n - 1), c[n - 1])

RECURSIVE MaxId(_, _)
MaxId(ids, e) == IF e = 0 THEN -1 ELSE Max(MaxId(ids, e - 1), ids[e])

RECURSIVE BinSum(_, _, _, _)
\* The sum of wts[e] over the entries e <= upto with ids[e] = j.
BinSum(ids, wts, j, upto) ==
    IF upto = 0 THEN 0
    ELSE IF ids[upto] = j THEN FAdd(BinSum(ids, wts, j, upto - 1), wts[upto])
    ELSE BinSum(ids, wts, j, upto - 1)

\* np.bincount(ids, weights=wts, minlength=minlength)
Bincount(ids, wts, minlength) ==
    Arr([j \in 0 .. (Max(minlength, MaxId(ids, Len(ids)) + 1) - 1) |->
            BinSum(ids, wts, j, Len(ids))])


\* Elementwise operations on arrays of any shape (functions on an index set).
VAdd(a, b) == Arr([i \in DOMAIN a |-> FAdd(a[i], b[i])])
VScale(n, a) == Arr([i \in DOMAIN a |-> FScale(n, a[i])])
VDiv(a, n) == Arr([i \in DOMAIN a |-> FDiv(a[i], n)])

\* The adjacency matrices tried for n nodes, each as nx.to_numpy_array gives
\* it for an undirected simple graph (symmetric, 0/1, zero diagonal): the
\* first m edges of the ring 0-1, 1-2, ..., (n-1)-0.  m = 0 is the graph
\* without edges, m = n - 1 the chain, m = n the ring; a smaller m leaves the
\* highest-indexed nodes without edges.
RingPrefix(n, m) ==
    [ix \in (0 .. n - 1) \X (0 .. n - 1) |->
        IF \E e \in 0 .. m - 1 : {ix[1], ix[2]} = {e, (e + 1) % n} /\ ix[1] # ix[2]
        THEN 1 ELSE 0]
Adjacency(n) == {RingPrefix(n, m) : m \in 0 .. (IF n >= 3 THEN n ELSE n - 1)}

RECURSIVE NonzeroUpTo(_, _, _)
\* The (row, column) pairs of the non-zero entries among the first c cells
\* of A, in row-major order.
NonzeroUpTo(A, n, c) ==
    IF c = 0 THEN <<>>
    ELSE LET i == (c - 1) \div n
             j == (c - 1) % n
             rest == NonzeroUpTo(A, n, c - 1)
         IN IF A[<<i, j>>] # 0 THEN Append(rest, <<i, j>>) ELSE rest

\* np.nonzero(A_adj): the pair (row indices, column indices).
Nonzero(A, n) ==
    LET nz == NonzeroUpTo(A, n, n * n)
    IN <<[e \in 1 .. Len(nz) |-> nz[e][1]], [e \in 1 .. Len(nz) |-> nz[e][2]]>>

RECURSIVE ColSum(_, _, _)
ColSum(A, j, r) == IF r = 0 THEN 0 ELSE ColSum(A, j, r - 1) + A[<<r - 1, j>>]
\* Degrees summing down the columns (A_adj.sum(axis=0)).
Degrees_columns(A, n) == [i \in 0 .. n - 1 |-> ColSum(A, i, n)]

RECURSIVE RowSum(_, _, _)
RowSum(A, i, c) == IF c = 0 THEN 0 ELSE RowSum(A, i, c - 1) + A[<<i, c - 1>>]
\* A_adj.sum(axis=1)
Degrees(A, n) == [i \in 0 .. n - 1 |-> RowSum(A, i, n)]

\* -------------------------------------------------- piecewise Rossler model
alpha == 50
beta == 500
R == 100
mu == 15
gamma_base == 10000
dgamma == 200
\* dt = 0.0001 of the Rossler sweep and dt = 0.05 of the Kuramoto sweep, each
\* held as its reciprocal: a product dt * k is the quotient k / dt_inv.
dt_inv == 10000
dt_inv_K == 20
\* The initial x, y and z of every node.
x0_init == 100
y0_init == 200
z0_init == 300
\* The threshold of g(x), 3., at resolution Q.
g_threshold == 3000

\* The state of the Rossler network is the 3 x N matrix vars_nodes, a function
\* on pairs <<component, node>>; Row(vars, c) is vars[c].
Row(vars, c) == Arr([j \in {ix[2] : ix \in DOMAIN vars} |-> vars[<<c, j>>]])

\* g_x with the corner smoothed over [2.5, 3.5]: a parabola joining 0 to the
\* line mu*(x - 3.).
g_x_smoothed(x, m) ==
    IF IsNaN(x) THEN NaN
    ELSE IF x <= g_threshold - Q \div 2 THEN 0
    ELSE IF x >= g_threshold + Q \div 2 THEN FScale(m, x - g_threshold)
    ELSE FScale(m, ((x - g_threshold + Q \div 2) * (x - g_threshold + Q \div 2))
                       \div (2 * Q))

\* g_x = np.where(x <= 3., 0., mu*(x - 3.)), for one node.
g_x(x, m) ==
    IF IsNaN(x) THEN NaN
    ELSE IF x <= g_threshold THEN 0 ELSE FScale(m, x - g_threshold)

\* piecewise_Rossler(vars, t, I, alpha, beta, R, mu, gamma): the derivative,
\* of the shape of vars.  gamma is a plain number per node.
piecewise_Rossler(vars, t, I, al, be, RR, m, gam) ==
    Arr([ix \in DOMAIN vars |->
        LET j == ix[2]
            x == vars[<<0, j>>]
            y == vars[<<1, j>>]
            z == vars[<<2, j>>]
        IN CASE ix[1] = 0 ->
                 FScale(gam[j],
                     FSub(FSub(FNeg(FMul(al, FSub(x, I[j]))), z), FMul(be, y)))
             [] ix[1] = 1 ->
                 FScale(gam[j], FSub(x, FMul(20 - (10 * Q) \div RR, y)))
             [] OTHER ->
                 FScale(gam[j], FSub(g_x(x, m), z))])

\* ---------------------------------------------------------- coupling
\* coupling_func with the bincount left at its default length.
coupling_func_unpadded(vars, weight, pre_ids, post_ids) ==
    LET currents == Arr([e \in 1 .. Len(pre_ids) |->
                        FMul(weight, FSub(vars[pre_ids[e]], vars[post_ids[e]]))])
    IN Bincount(post_ids, currents, 0)

\* coupling_func(vars, weight, pre_ids, post_ids)
coupling_func(vars, weight, pre_ids, post_ids) ==
    LET currents == Arr([e \in 1 .. Len(pre_ids) |->
                        FMul(weight, FSub(vars[pre_ids[e]], vars[post_ids[e]]))])
        num_nodes == Len0(vars)
    IN Bincount(post_ids, currents, num_nodes)

\* ---------------------------------------------------------- Kuramoto model
\* kuramoto with the coupling sum added without its strength c.
kuramoto_unscaled(vars, t, omega, c, pre_ids, post_ids) ==
    LET currents == Arr([e \in 1 .. Len(pre_ids) |->
                        Sin(FSub(vars[pre_ids[e]], vars[post_ids[e]]))])
        num_nodes == Len0(vars)
        I_couple == Bincount(post_ids, currents, num_nodes)
    IN Arr([j \in DOMAIN omega |-> FAdd(omega[j], I_couple[j])])

\* kuramoto(vars, t, omega, c, pre_ids, post_ids)
kuramoto(vars, t, omega, c, pre_ids, post_ids) ==
    LET currents == Arr([e \in 1 .. Len(pre_ids) |->
                        Sin(FSub(vars[pre_ids[e]], vars[post_ids[e]]))])
        num_nodes == Len0(vars)
        I_couple == Bincount(post_ids, currents, num_nodes)
    IN Arr([j \in DOMAIN omega |-> FAdd(omega[j], FMul(c[j], I_couple[j]))])

\* A call of coupling_func that stores its result into vars.
coupling_func_call_inplace(a) ==
    [a EXCEPT !.vars = coupling_func(a.vars, a.weight, a.pre_ids, a.post_ids),
              !.out = coupling_func(a.vars, a.weight, a.pre_ids, a.post_ids)]

\* The caller's arrays after Icoup = coupling_func(vars, weight, pre_ids,
\* post_ids): the function writes to none of its arguments (currents and
\* Icoup are new arrays), so only out, the array returned, is new.
coupling_func_call(a) ==
    [a EXCEPT !.out = coupling_func(a.vars, a.weight, a.pre_ids, a.post_ids)]

\* The caller's arrays after dvars_dt = kuramoto(vars, t, omega, c, pre_ids,
\* post_ids), in the same way.
kuramoto_call(a) ==
    [a EXCEPT !.out = kuramoto(a.vars, a.t, a.omega, a.c, a.pre_ids, a.post_ids)]

\* ---------------------------------------------------------- integrators
\* fun(v, tt, *args): fun is the name of the vector field, args the tuple of
\* its remaining arguments.
Call(fun, v, tt, args) ==
    IF fun = "kuramoto"
    THEN kuramoto(v, tt, args[1], args[2], args[3], args[4])
    ELSE piecewise_Rossler(v, tt, args[1], args[2], args[3], args[4], args[5],
                           args[6])

\* Time is counted in half steps: t + dt/2 is t + 1 and t + dt is t + 2.
\* RK4(fun, x0, t, dt, *args): the content of x0 after
\* x0 += (dt/6)*(k1 + 2*k2 + 2*k3 + k4).
RK4(fun, x0, t, dti, args) ==
    LET k1 == Call(fun, x0, t, args)
        k2 == Call(fun, VAdd(x0, VDiv(k1, 2 * dti)), t + 1, args)
        k3 == Call(fun, VAdd(x0, VDiv(k2, 2 * dti)), t + 1, args)
        k4 == Call(fun, VAdd(x0, VDiv(k3, dti)), t + 2, args)
    IN VAdd(x0, VDiv(VAdd(VAdd(k1, VScale(2, k2)), VAdd(VScale(2, k3), k4)),
                     6 * dti))

\* Heun with the increment assigned to x0 instead of added to it.
Heun_assigned(fun, x0, t, dti, args) ==
    LET k1 == Call(fun, x0, t, args)
        x_pred == VAdd(x0, VDiv(k1, dti))
        k2 == Call(fun, x_pred, t + 2, args)
    IN VDiv(VAdd(k1, k2), 2 * dti)

\* Heun(fun, x0, t, dt, *args): the content of x0 after
\* x0 += 0.5 * dt * (k1 + k2).
Heun(fun, x0, t, dti, args) ==
    LET k1 == Call(fun, x0, t, args)
        x_pred == VAdd(x0, VDiv(k1, dti))
        k2 == Call(fun, x_pred, t + 2, args)
    IN VAdd(x0, VDiv(VAdd(k1, k2), 2 * dti))

\* method = Heun
method(fun, x0, t, dti, args) == Heun(fun, x0, t, dti, args)

\* The value a call returns: an array, or None.
None == [none |-> TRUE, val |-> <<>>]
Returns(v) == [none |-> FALSE, val |-> v]

\* A call of RK4 of the Rossler notebook: x0 is the caller's array after the
\* call (x0 += ... writes it in place), ret what the call returns (return x0).
RK4_call(fun, x0, t, dti, args) ==
    LET after == RK4(fun, x0, t, dti, args)
    IN [x0 |-> after, ret |-> Returns(after)]

\* A call of RK4 of the Kuramoto notebook, which has no return statement.
RK4_K_call(fun, x0, t, dti, args) ==
    [x0 |-> RK4(fun, x0, t, dti, args), ret |-> None]

\* Heun returning a new array and leaving the caller's array as it was.
Heun_call_fresh(fun, x0, t, dti, args) ==
    [x0 |-> x0, ret |-> Returns(Heun(fun, x0, t, dti, args))]

\* A call of Heun: x0 += ... in place, and return x0.
Heun_call(fun, x0, t, dti, args) ==
    LET after == Heun(fun, x0, t, dti, args)
    IN [x0 |-> after, ret |-> Returns(after)]

\* A call of method, which is Heun.
method_call(fun, x0, t, dti, args) == Heun_call(fun, x0, t, dti, args)

\* ---------------------------------------------------------- statistics
\* order_parameter(vars) = np.abs(np.sum(np.exp(1j * vars)) / N)
order_parameter(vars) ==
    LET n == Len0(vars)
    IN CAbs(CDiv(SumTo([j \in DOMAIN vars |-> Exp1j(vars[j])], n), n))

\* The Rossler sweep's statistic of one step:
\* np.abs(np.sum(np.exp(1j * np.arctan2(vars_nodes[1], vars_nodes[0]))) / N)
order_parameter_R(vars_nodes, n) ==
    LET phi_t == [j \in 0 .. n - 1 |->
                    ArcTan2(vars_nodes[<<1, j>>], vars_nodes[<<0, j>>])]
    IN CAbs(CDiv(SumTo([j \in 0 .. n - 1 |-> Exp1j(phi_t[j])], n), n))

\* local_order_parameter without the division by the degree.
local_order_parameter_undivided(vars, pre_ids, post_ids, degree_lit) ==
    LET n == Len0(vars)
        r_temp == [e \in 1 .. Len(pre_ids) |-> Exp1j(vars[pre_ids[e]])]
        real_part == [e \in 1 .. Len(pre_ids) |-> r_temp[e].re]
        imag_part == [e \in 1 .. Len(pre_ids) |-> r_temp[e].im]
        sum_real == Bincount(post_ids, real_part, n)
        sum_imag == Bincount(post_ids, imag_part, n)
    IN Arr([j \in DOMAIN degree_lit |->
              CAbs([re |-> sum_real[j], im |-> sum_imag[j]])])

\* local_order_parameter(vars, pre_ids, post_ids, degree_lit)
local_order_parameter(vars, pre_ids, post_ids, degree_lit) ==
    LET n == Len0(vars)
        r_temp == [e \in 1 .. Len(pre_ids) |-> Exp1j(vars[pre_ids[e]])]
        real_part == [e \in 1 .. Len(pre_ids) |-> r_temp[e].re]
        imag_part == [e \in 1 .. Len(pre_ids) |-> r_temp[e].im]
        sum_real == Bincount(post_ids, real_part, n)
        sum_imag == Bincount(post_ids, imag_part, n)
        r_sum_abs == [j \in DOMAIN sum_real |->
                        CAbs([re |-> sum_real[j], im |-> sum_imag[j]])]
    IN Arr([j \in DOMAIN degree_lit |-> FDiv(r_sum_abs[j], degree_lit[j])])

\* ---------------------------------------------------------- random numbers
\* numba keeps one generator per worker thread.  Its state is the position g
\* in the thread's stream; Rand(g) is the draw at g, one of 8 equally likely
\* values, and np.random.uniform(lo, hi) at g is lo + (hi - lo) * Rand(g)/8.
\* The stream has no short period and no constant step, so draws taken at
\* different positions differ as a rule.
Rand(g) == (3 * ((g * (g + 1)) \div 2) + 1) % 8
Uniform(lo, hi, g) == lo + ((hi - lo) * Rand(g)) \div 8

RECURSIVE Shuffle(_, _, _)
\* np.random.shuffle(idx): Fisher-Yates from position m down to 1, the draw
\* for position m taken at g; one draw per position.
Shuffle(idx, m, g) ==
    IF m <= 0 THEN idx
    ELSE LET j == Rand(g) % (m + 1)
             swapped == [idx EXCEPT ![m] = idx[j], ![j] = idx[m]]
         IN Shuffle(swapped, m - 1, g + 1)

\* seed = 0; random.seed(seed); np.random.seed(seed), run by the interpreter:
\* it seeds Python's and NumPy's generators, not the generators of the
\* compiled code, which start in a state the process picks at start-up.
seed == 0
\* The state a generator seeded with sd starts in.
Seeded(sd) == sd

\* The draws net (Kuramoto) makes from a generator at g for n nodes: omega,
\* the initial phases, the shuffled idx; and the generator's state afterwards.
f_adaptive == 1000
Draws(n, g) ==
    [omega |-> [j \in 0 .. n - 1 |-> Uniform(0 - Q, Q, g + j)],
     vars_nodes |-> [j \in 0 .. n - 1 |-> Uniform(0 - Pi, Pi, g + n + j)],
     idx |-> Shuffle([j \in 0 .. n - 1 |-> j], n - 1, g + 2 * n),
     next |-> g + 2 * n + Max(n - 1, 0)]

\* ------------------------------------------------------------------ sweeps
\* The locals of one call of net.  pc is the loop the call is in: "Init" (not
\* started), "Warm" (Rossler only: the uncoupled loop before the first
\* value), "Relaxing", "Accumulating", "Emit" (the accumulation loop is over,
\* the append is next), "Done" (returned its list).  k is the position of the
\* current value in the sequence (from 1), i the count of finished steps of
\* the current loop, t the time in half steps.
NotStarted ==
    [pc |-> "Init", vars_nodes |-> <<>>, omega |-> <<>>, weights |-> <<>>,
     weight |-> 0, Nodes_adaptive |-> {}, pre_ids |-> <<>>, post_ids |-> <<>>,
     degrees |-> <<>>, gamma |-> <<>>, t |-> 0, k |-> 0, i |-> 0, S |-> 0,
     S_list |-> <<>>]

\* w * np.ones(N)
Ones(w, n) == [j \in 0 .. n - 1 |-> w]

\* net (Rossler), lines 123-145, for an adjacency matrix of any dimension m:
\* the locals before the first loop.  No line compares m with N; the arrays
\* made from A_adj (degrees, gamma) have length m, those made from N length N.
NetInit_R(n, m, A) ==
    LET nz == Nonzero(A, m)
        degrees == Degrees(A, m)
    IN [NotStarted EXCEPT
          !.pc = "Warm",
          !.vars_nodes = [ix \in (0 .. 2) \X (0 .. n - 1) |->
                            CASE ix[1] = 0 -> x0_init
                              [] ix[1] = 1 -> y0_init
                              [] OTHER -> z0_init],
          !.post_ids = nz[1],
          !.pre_ids = nz[2],
          !.degrees = degrees,
          !.gamma = [j \in 0 .. m - 1 |->
                       (gamma_base * (Q + (dgamma * (degrees[j] - 1)) \div n))
                           \div Q],
          !.t = 0]

\* net (Rossler), lines 123-145: the locals before the first loop.
Start_R(n, A) ==
    LET nz == Nonzero(A, n)
        degrees == Degrees(A, n)
    IN [NotStarted EXCEPT
          !.pc = "Warm",
          !.vars_nodes = [ix \in (0 .. 2) \X (0 .. n - 1) |->
                            CASE ix[1] = 0 -> x0_init
                              [] ix[1] = 1 -> y0_init
                              [] OTHER -> z0_init],
          !.post_ids = nz[1],
          !.pre_ids = nz[2],
          !.degrees = degrees,
          !.gamma = [j \in 0 .. n - 1 |->
                       (gamma_base * (Q + (dgamma * (degrees[j] - 1)) \div n))
                           \div Q],
          !.t = 0]

\* One RK4 step of the Rossler network under the coupling input Icoup: the
\* call is a statement, what it returns is dropped.
Integrate_R(s, Icoup) ==
    RK4_call("piecewise_Rossler", s.vars_nodes, s.t, dt_inv,
             <<Icoup, alpha, beta, R, mu, s.gamma>>).x0

\* The loop header "for weight in weight_list" taking the value at position k,
\* or leaving the loop (and returning the list) when there is none.
NextValue_R(s, wl, k) ==
    IF k <= Len(wl)
    THEN [s EXCEPT !.pc = "Relaxing", !.k = k, !.i = 0, !.weight = wl[k]]
    ELSE [s EXCEPT !.pc = "Done"]

\* One pass of the loop of lines 148-150; after the last, S_list = [] and the
\* first value.
WarmStep(s, n, wl) ==
    LET s1 == [s EXCEPT !.vars_nodes = Integrate_R(s, Ones(0, n)), !.i = s.i + 1]
    IN IF s1.i < WarmN THEN s1
       ELSE NextValue_R([s1 EXCEPT !.S_list = <<>>], wl, 1)

\* The Rossler field at v with the coupling input taken anew from v.
Recoupled(s, v) ==
    piecewise_Rossler(v, s.t,
                      coupling_func(Row(v, 0), s.weight, s.pre_ids, s.post_ids),
                      alpha, beta, R, mu, s.gamma)

\* RelaxStep_R with the coupling input evaluated anew at each of the four
\* stages of the step, from the stage's own state.
RelaxStep_R_restaged(s) ==
    LET x0 == s.vars_nodes
        k1 == Recoupled(s, x0)
        k2 == Recoupled(s, VAdd(x0, VDiv(k1, 2 * dt_inv)))
        k3 == Recoupled(s, VAdd(x0, VDiv(k2, 2 * dt_inv)))
        k4 == Recoupled(s, VAdd(x0, VDiv(k3, dt_inv)))
        after == VAdd(x0, VDiv(VAdd(VAdd(k1, VScale(2, k2)),
                                    VAdd(VScale(2, k3), k4)), 6 * dt_inv))
        s1 == [s EXCEPT !.vars_nodes = after, !.i = s.i + 1]
    IN IF s1.i < RelaxN THEN s1
       ELSE [s1 EXCEPT !.pc = "Accumulating", !.i = 0, !.S = 0]

\* RelaxStep_R with the order parameter accumulated in the relaxation loop too.
RelaxStep_R_sampling(s) ==
    LET Icoup == coupling_func(Row(s.vars_nodes, 0), s.weight, s.pre_ids, s.post_ids)
        after == Integrate_R(s, Icoup)
        s1 == [s EXCEPT !.vars_nodes = after,
                        !.S = FAdd(s.S, FDiv(order_parameter_R(after, Len0(s.degrees)), CalN)),
                        !.i = s.i + 1]
    IN IF s1.i < RelaxN THEN s1
       ELSE [s1 EXCEPT !.pc = "Accumulating", !.i = 0]

\* One pass of the loop of lines 156-158; after the last, cal_n and S = 0.
RelaxStep_R(s) ==
    LET Icoup == coupling_func(Row(s.vars_nodes, 0), s.weight, s.pre_ids, s.post_ids)
        s1 == [s EXCEPT !.vars_nodes = Integrate_R(s, Icoup), !.i = s.i + 1]
    IN IF s1.i < RelaxN THEN s1
       ELSE [s1 EXCEPT !.pc = "Accumulating", !.i = 0, !.S = 0]

\* Accumulate without the division by cal_n.
Accumulate_undivided(S, r) == FAdd(S, r)

\* S += np.abs(np.sum(np.exp(1j * phi_t)) / N) / cal_n
Accumulate(S, r) == FAdd(S, FDiv(r, CalN))

\* AccStep_R leaving the loop as soon as a sample is 1 (full synchrony).
AccStep_R_until_sync(s, n) ==
    LET Icoup == coupling_func(Row(s.vars_nodes, 0), s.weight, s.pre_ids, s.post_ids)
        after == Integrate_R(s, Icoup)
        s1 == [s EXCEPT !.vars_nodes = after,
                        !.S = Accumulate(s.S, order_parameter_R(after, n)),
                        !.t = s.t + 2,
                        !.i = s.i + 1]
    IN IF s1.i < CalN /\ order_parameter_R(after, n) # Q THEN s1
       ELSE [s1 EXCEPT !.pc = "Emit"]

\* One pass of the loop of lines 163-171.
AccStep_R(s, n) ==
    LET Icoup == coupling_func(Row(s.vars_nodes, 0), s.weight, s.pre_ids, s.post_ids)
        after == Integrate_R(s, Icoup)
        s1 == [s EXCEPT !.vars_nodes = after,
                        !.S = Accumulate(s.S, order_parameter_R(after, n)),
                        !.t = s.t + 2,
                        !.i = s.i + 1]
    IN IF s1.i < CalN THEN s1 ELSE [s1 EXCEPT !.pc = "Emit"]

\* Emit_R with the measure put at the head of the list (S_list.insert(0, S)).
Emit_R_prepend(s, wl) ==
    NextValue_R([s EXCEPT !.S_list = <<s.S>> \o s.S_list], wl, s.k + 1)

\* Emit_R with every measure already in the list overwritten by the new one
\* before the append.
Emit_R_smeared(s, wl) ==
    NextValue_R([s EXCEPT !.S_list =
                     Append([q \in 1 .. Len(s.S_list) |-> s.S], s.S)], wl, s.k + 1)

\* S_list.append(S), line 176, and the loop header again.
Emit_R(s, wl) ==
    NextValue_R([s EXCEPT !.S_list = Append(s.S_list, s.S)], wl, s.k + 1)

\* The loop header "for w in w_list" of net (Kuramoto) with lines 530-532:
\* weights = w * np.ones(N) and t = 0.
\* NextValue_K with the natural frequencies set anew for every value.
NextValue_K_redrawn(s, n, wl, k) ==
    IF k <= Len(wl)
    THEN [s EXCEPT !.pc = "Relaxing", !.k = k, !.i = 0, !.weight = wl[k],
                   !.weights = Ones(wl[k], n), !.t = 0,
                   !.omega = Ones(wl[k], n)]
    ELSE [s EXCEPT !.pc = "Done"]

NextValue_K(s, n, wl, k) ==
    IF k <= Len(wl)
    THEN [s EXCEPT !.pc = "Relaxing", !.k = k, !.i = 0, !.weight = wl[k],
                   !.weights = Ones(wl[k], n), !.t = 0]
    ELSE [s EXCEPT !.pc = "Done"]

\* net (Kuramoto), lines 508-532, for an adjacency matrix of any dimension m.
NetInit_K(n, m, A, wl, g) ==
    LET nz == Nonzero(A, m)
        d == Draws(n, g)
        N_adaptive == (f_adaptive * n) \div Q
    IN NextValue_K(
         [NotStarted EXCEPT
            !.omega = d.omega,
            !.vars_nodes = d.vars_nodes,
            !.post_ids = nz[1],
            !.pre_ids = nz[2],
            !.degrees = Degrees(A, m),
            !.Nodes_adaptive = {d.idx[q] : q \in 0 .. N_adaptive - 1},
            !.S_list = <<>>],
         n, wl, 1)

\* net (Kuramoto), lines 508-532: the locals before the first loop, drawn
\* from a generator at g, and the first value.
Start_K(n, A, wl, g) ==
    LET nz == Nonzero(A, n)
        d == Draws(n, g)
        N_adaptive == (f_adaptive * n) \div Q
    IN NextValue_K(
         [NotStarted EXCEPT
            !.omega = d.omega,
            !.vars_nodes = d.vars_nodes,
            !.post_ids = nz[1],
            !.pre_ids = nz[2],
            !.degrees = Degrees(A, n),
            !.Nodes_adaptive = {d.idx[m] : m \in 0 .. N_adaptive - 1},
            !.S_list = <<>>],
         n, wl, 1)

\* AdaptWeights writing the weight of every node, adaptive or not.
AdaptWeights_all(s) ==
    LET r_local == local_order_parameter(s.vars_nodes, s.pre_ids, s.post_ids,
                                         s.degrees)
    IN Arr([j \in DOMAIN s.weights |-> FMul(s.weight, r_local[j])])

\* AdaptWeights without the factor w.
AdaptWeights_unscaled(s) ==
    LET r_local == local_order_parameter(s.vars_nodes, s.pre_ids, s.post_ids,
                                         s.degrees)
    IN Arr([j \in DOMAIN s.weights |->
              IF j \in s.Nodes_adaptive THEN r_local[j] ELSE s.weights[j]])

\* weights[Nodes_adaptive] = w * r_local[Nodes_adaptive]
AdaptWeights(s) ==
    LET r_local == local_order_parameter(s.vars_nodes, s.pre_ids, s.post_ids,
                                         s.degrees)
    IN Arr([j \in DOMAIN s.weights |->
              IF j \in s.Nodes_adaptive THEN FMul(s.weight, r_local[j])
              ELSE s.weights[j]])

\* method(kuramoto, vars_nodes, t, dt, omega, weights, pre_ids, post_ids): the
\* call is a statement, what it returns is dropped.
Integrate_K(s, weights) ==
    method_call("kuramoto", s.vars_nodes, s.t, dt_inv_K,
                <<s.omega, weights, s.pre_ids, s.post_ids>>).x0

\* RelaxStep_K with one pass too many (range(200_00 + 1)).
RelaxStep_K_long(s) ==
    LET weights == AdaptWeights(s)
        s1 == [s EXCEPT !.weights = weights,
                        !.vars_nodes = Integrate_K(s, weights),
                        !.i = s.i + 1]
    IN IF s1.i < RelaxN + 1 THEN s1
       ELSE [s1 EXCEPT !.pc = "Accumulating", !.i = 0, !.S = 0]

\* One pass of the loop of lines 538-543; after the last, r = 0 and cal_n.
RelaxStep_K(s) ==
    LET weights == AdaptWeights(s)
        s1 == [s EXCEPT !.weights = weights,
                        !.vars_nodes = Integrate_K(s, weights),
                        !.i = s.i + 1]
    IN IF s1.i < RelaxN THEN s1
       ELSE [s1 EXCEPT !.pc = "Accumulating", !.i = 0, !.S = 0]

\* AccStep_K with the statistic fed back: the weights of the pass are the
\* value times the accumulator.
AccStep_K_fed(s) ==
    LET weights == Arr([j \in DOMAIN s.weights |-> FMul(s.weight, s.S)])
        after == Integrate_K(s, weights)
        s1 == [s EXCEPT !.weights = weights,
                        !.vars_nodes = after,
                        !.t = s.t + 2,
                        !.S = Accumulate(s.S, order_parameter(after)),
                        !.i = s.i + 1]
    IN IF s1.i < CalN THEN s1 ELSE [s1 EXCEPT !.pc = "Emit"]

\* One pass of the loop of lines 548-557.
AccStep_K(s) ==
    LET weights == AdaptWeights(s)
        after == Integrate_K(s, weights)
        s1 == [s EXCEPT !.weights = weights,
                        !.vars_nodes = after,
                        !.t = s.t + 2,
                        !.S = Accumulate(s.S, order_parameter(after)),
                        !.i = s.i + 1]
    IN IF s1.i < CalN THEN s1 ELSE [s1 EXCEPT !.pc = "Emit"]

\* Emit_K with the node state drawn afresh for the next value.
Emit_K_reset(s, n, wl) ==
    NextValue_K([s EXCEPT !.S_list = Append(s.S_list, s.S),
                          !.vars_nodes = Ones(0, n)], n, wl, s.k + 1)

\* r_list.append(r), line 559, and the loop header again.
Emit_K(s, n, wl) ==
    NextValue_K([s EXCEPT !.S_list = Append(s.S_list, s.S)], n, wl, s.k + 1)

\* One step of a sweep of the given notebook, by the loop it is in.
StepSweep(s, kd, n, wl) ==
    CASE s.pc = "Warm" -> WarmStep(s, n, wl)
      [] s.pc = "Relaxing" ->
           IF kd = "Rossler" THEN RelaxStep_R(s) ELSE RelaxStep_K(s)
      [] s.pc = "Accumulating" ->
           IF kd = "Rossler" THEN AccStep_R(s, n) ELSE AccStep_K(s)
      [] s.pc = "Emit" ->
           IF kd = "Rossler" THEN Emit_R(s, wl) ELSE Emit_K(s, n, wl)
      [] OTHER -> s

RECURSIVE RunToDone(_, _, _, _)
RunToDone(s, kd, n, wl) ==
    IF s.pc \in {"Done", "Init"} THEN s
    ELSE RunToDone(StepSweep(s, kd, n, wl), kd, n, wl)

\* net(N, A_adj, weight_list) of the Rossler notebook, run on its own: the
\* list it returns.
net_R(n, A, wl) == RunToDone(Start_R(n, A), "Rossler", n, wl).S_list
\* net(N, A_adj, w_list) of the Kuramoto notebook, run on its own on a thread
\* whose generator is at g: the list it returns.
net_K(n, A, wl, g) == RunToDone(Start_K(n, A, wl, g), "Kuramoto", n, wl).S_list

\* ------------------------------------------------------------ Parallel_net
\* The step between two values of the sequences tried (0.3 at resolution Q).
WStep == 300
\* np.arange(0, n * step, step) and its reverse, w_list1[::-1].
Forward(n) == [k \in 1 .. n |-> (k - 1) * WStep]
Backward(n) == [k \in 1 .. n |-> (n - k) * WStep]

VARIABLES
    kind,         \* which notebook runs: "Rossler" or "Kuramoto"
    N,            \* the node count passed to Parallel_net
    A_adj,        \* the adjacency matrix passed to Parallel_net
    weight_list,  \* the two coupling-strength sequences, weight_list[0], [1]
    thread,       \* the worker thread prange gives iteration i
    gen,          \* the state of each worker thread's random generator
    sw,           \* the locals of the two calls of net
    results,      \* Parallel_net's results array, one row per iteration
    ppc,          \* Parallel_net: "run", "returned", or "failed" (an exception)
    hist,         \* per sweep, what has happened so far (not program state)
    probe         \* the state of the single-function specifications below

vars == <<kind, N, A_adj, weight_list, thread, gen, sw, results, ppc, hist, probe>>

\* Nothing has happened yet.  samples: the order parameter of the node state
\* after each accumulation step of the current value; sums: for each finished
\* accumulation loop, the position k and the value w it ran for and the
\* accumulator S it ended with; steps: integrator calls so far; g0: the state
\* of the sweep's thread's generator when Parallel_net was called.
NoHistory == [samples |-> <<>>, sums |-> <<>>, steps |-> 0, g0 |-> 0]

\* Lines 219-220 and 573-574: len = weight_list[0].shape[0] and
\* results = np.zeros((2, len)).
Allocate(wl) == [i \in 0 .. 1 |-> [c \in 0 .. Len(wl[0]) - 1 |-> 0]]

Init ==
    /\ kind \in {"Rossler", "Kuramoto"}
    /\ N \in 1 .. MaxN
    /\ A_adj \in Adjacency(N)
    /\ \E n0, n1 \in 1 .. MaxLen :
         \* the Kuramoto notebook passes a 2-d array: two rows of one length
         /\ kind = "Kuramoto" => n0 = n1
         /\ weight_list = [i \in 0 .. 1 |-> IF i = 0 THEN Forward(n0) ELSE Backward(n1)]
    /\ thread \in {th \in [0 .. 1 -> 0 .. 1] : th[0] = 0}
    /\ gen \in {g \in [0 .. 1 -> 0 .. MaxGen] :
                  /\ kind = "Rossler" => g[0] = 0
                  /\ (kind = "Rossler" \/ thread[1] = 0) => g[1] = 0}
    /\ sw = [i \in 0 .. 1 |-> NotStarted]
    /\ results = Allocate(weight_list)
    /\ ppc = "run"
    /\ hist = [i \in 0 .. 1 |-> [NoHistory EXCEPT !.g0 = gen[thread[i]]]]
    /\ probe = <<>>

\* prange(2) runs the iterations a thread is given one after the other, in
\* order, and the iterations of different threads in any interleaving.
MayStart(i) ==
    /\ ppc = "run"
    /\ sw[i].pc = "Init"
    /\ (i = 1 /\ thread[1] = thread[0]) => sw[0].pc = "Returned"

StartR(i) ==
    /\ kind = "Rossler"
    /\ MayStart(i)
    /\ sw' = [sw EXCEPT ![i] = Start_R(N, A_adj)]
    /\ UNCHANGED <<kind, N, A_adj, weight_list, thread, gen, results, ppc, hist, probe>>

StartK(i) ==
    /\ kind = "Kuramoto"
    /\ MayStart(i)
    /\ sw' = [sw EXCEPT ![i] = Start_K(N, A_adj, weight_list[i], gen[thread[i]])]
    /\ gen' = [gen EXCEPT ![thread[i]] = Draws(N, gen[thread[i]]).next]
    /\ UNCHANGED <<kind, N, A_adj, weight_list, thread, results, ppc, hist, probe>>

\* What a step of sweep i leaves alone.
StepFrame == UNCHANGED <<kind, N, A_adj, weight_list, thread, gen, results, ppc, probe>>

\* The history after an integrator call that takes no sample.
Stepped(h, s1) ==
    [h EXCEPT !.steps = h.steps + 1,
              !.samples = IF s1.pc = "Accumulating" THEN <<>> ELSE h.samples]

\* The history after an accumulation step that left the sweep in s1 with the
\* order parameter r of its node state.
Sampled(h, s1, r) ==
    [h EXCEPT !.steps = h.steps + 1,
              !.samples = Append(h.samples, r),
              !.sums = IF s1.pc = "Emit"
                       THEN Append(h.sums, [k |-> s1.k, w |-> s1.weight, S |-> s1.S])
                       ELSE h.sums]

Warm(i) ==
    /\ ppc = "run" /\ kind = "Rossler" /\ sw[i].pc = "Warm"
    /\ sw' = [sw EXCEPT ![i] = WarmStep(sw[i], N, weight_list[i])]
    /\ hist' = [hist EXCEPT ![i] = Stepped(hist[i], sw'[i])]
    /\ StepFrame

RelaxR(i) ==
    /\ ppc = "run" /\ kind = "Rossler" /\ sw[i].pc = "Relaxing"
    /\ sw' = [sw EXCEPT ![i] = RelaxStep_R(sw[i])]
    /\ hist' = [hist EXCEPT ![i] = Stepped(hist[i], sw'[i])]
    /\ StepFrame

AccR(i) ==
    /\ ppc = "run" /\ kind = "Rossler" /\ sw[i].pc = "Accumulating"
    /\ sw' = [sw EXCEPT ![i] = AccStep_R(sw[i], N)]
    /\ hist' = [hist EXCEPT ![i] =
                  Sampled(hist[i], sw'[i], order_parameter_R(sw'[i].vars_nodes, N))]
    /\ StepFrame

EmitR(i) ==
    /\ ppc = "run" /\ kind = "Rossler" /\ sw[i].pc = "Emit"
    /\ sw' = [sw EXCEPT ![i] = Emit_R(sw[i], weight_list[i])]
    /\ UNCHANGED hist
    /\ StepFrame

RelaxK(i) ==
    /\ ppc = "run" /\ kind = "Kuramoto" /\ sw[i].pc = "Relaxing"
    /\ sw' = [sw EXCEPT ![i] = RelaxStep_K(sw[i])]
    /\ hist' = [hist EXCEPT ![i] = Stepped(hist[i], sw'[i])]
    /\ StepFrame

AccK(i) ==
    /\ ppc = "run" /\ kind = "Kuramoto" /\ sw[i].pc = "Accumulating"
    /\ sw' = [sw EXCEPT ![i] = AccStep_K(sw[i])]
    /\ hist' = [hist EXCEPT ![i] =
                  Sampled(hist[i], sw'[i], order_parameter(sw'[i].vars_nodes))]
    /\ StepFrame

EmitK(i) ==
    /\ ppc = "run" /\ kind = "Kuramoto" /\ sw[i].pc = "Emit"
    /\ sw' = [sw EXCEPT ![i] = Emit_K(sw[i], N, weight_list[i])]
    /\ UNCHANGED hist
    /\ StepFrame

\* results[i] = np.asarray(result): whether the assignment succeeds, and the
\* row after it.  A list of the row's length fills it, a list of one value is
\* broadcast over it, any other list raises ValueError.
StoreRow(row, result) ==
    IF Len(result) = Len0(row)
    THEN [ok |-> TRUE, row |-> [c \in DOMAIN row |-> result[c + 1]]]
    ELSE IF Len(result) = 1
    THEN [ok |-> TRUE, row |-> [c \in DOMAIN row |-> result[1]]]
    ELSE [ok |-> FALSE, row |-> row]

\* Lines 222-223 and 577-578 once net has returned.
Store(i) ==
    /\ ppc = "run" /\ sw[i].pc = "Done"
    /\ LET st == StoreRow(results[i], sw[i].S_list)
       IN IF st.ok
          THEN /\ results' = [results EXCEPT ![i] = st.row]
               /\ sw' = [sw EXCEPT ![i].pc = "Returned"]
               /\ UNCHANGED ppc
          ELSE /\ ppc' = "failed"
               /\ UNCHANGED <<sw, results>>
    /\ UNCHANGED <<kind, N, A_adj, weight_list, thread, gen, hist, probe>>

\* return results, once both iterations are over.
Finish ==
    /\ ppc = "run"
    /\ \A i \in 0 .. 1 : sw[i].pc = "Returned"
    /\ ppc' = "returned"
    /\ UNCHANGED <<kind, N, A_adj, weight_list, thread, gen, sw, results, hist, probe>>

Next ==
    \/ \E i \in 0 .. 1 :
         \/ StartR(i) \/ Warm(i) \/ RelaxR(i) \/ AccR(i) \/ EmitR(i)
         \/ StartK(i) \/ RelaxK(i) \/ AccK(i) \/ EmitK(i)
         \/ Store(i)
    \/ Finish

Spec == Init /\ [][Next]_vars

\* ------------------------------------------------------------------ claims
Sweeps == 0 .. 1
Returned(i) == sw[i].pc \in {"Done", "Returned"}
\* The node state net starts from.
InitialState(i) ==
    IF kind = "Rossler" THEN Start_R(N, A_adj).vars_nodes
    ELSE Draws(N, hist[i].g0).vars_nodes

\* C1: a sweep that has reached Done holds exactly one measure per value of
\* its sequence, and the measure at position k is the accumulator that the
\* accumulation loop of the k-th value ended with.
C1_OneMeasurePerValueInOrder ==
    \A i \in Sweeps :
        Returned(i) =>
            /\ Len(sw[i].S_list) = Len(weight_list[i])
            /\ Len(hist[i].sums) = Len(weight_list[i])
            /\ \A k \in 1 .. Len(weight_list[i]) :
                 hist[i].sums[k] =
                   [k |-> k, w |-> weight_list[i][k], S |-> sw[i].S_list[k]]

\* A sweep over two values has returned two different measures.
C1_Witness ==
    \E i \in Sweeps :
        /\ Returned(i)
        /\ Len(weight_list[i]) >= 2
        /\ sw[i].S_list[1] # sw[i].S_list[2]

\* C2 (the claim as stated): Parallel_net returns, and each row of what it
\* returns is as long as that row's own input sequence.
C2_RowLengthIsOwnInputLength ==
    /\ ppc # "failed"
    /\ ppc = "returned" =>
         \A i \in Sweeps : Len0(results[i]) = Len(weight_list[i])

\* C3: the append and the change to the next value leave the node state as
\* the last accumulation step left it, and after the start of the sweep the
\* node state changes only by an integrator call.
C3_StateCarriesOver ==
    [][\A i \in Sweeps :
         /\ sw[i].pc = "Emit" => sw'[i].vars_nodes = sw[i].vars_nodes
         /\ (sw[i].pc # "Init" /\ sw'[i].vars_nodes # sw[i].vars_nodes) =>
              /\ sw[i].pc \in {"Warm", "Relaxing", "Accumulating"}
              /\ hist'[i].steps = hist[i].steps + 1]_vars

\* A sweep is at the first relaxation step of its second value, in a node
\* state that is not the one it started from.
C3_Witness ==
    \E i \in Sweeps :
        /\ sw[i].pc = "Relaxing" /\ sw[i].k = 2 /\ sw[i].i = 0
        /\ sw[i].vars_nodes # InitialState(i)

\* C4 (the claim as stated): every integrator call of a sweep is made in the
\* Relaxing or the Accumulating phase of some value.
C4_EveryStepRelaxesOrAccumulates ==
    [][\A i \in Sweeps :
         hist'[i].steps # hist[i].steps =>
            sw[i].pc \in {"Relaxing", "Accumulating"} /\ sw[i].k >= 1]_vars

\* The phase a sweep may be in after one of its steps taken in phase s.pc.
PhaseFollows(s, s1, wl) ==
    CASE s.pc = "Init" ->
           \/ kind = "Rossler" /\ s1.pc = "Warm" /\ s1.i = 0
           \/ kind = "Kuramoto" /\ s1.pc = "Relaxing" /\ s1.k = 1 /\ s1.i = 0
      [] s.pc = "Warm" ->
           \/ s.i + 1 < WarmN /\ s1.pc = "Warm" /\ s1.i = s.i + 1
           \/ s.i + 1 = WarmN /\ s1.pc = "Relaxing" /\ s1.k = 1 /\ s1.i = 0
      [] s.pc = "Relaxing" ->
           \/ s.i + 1 < RelaxN /\ s1.pc = "Relaxing" /\ s1.k = s.k /\ s1.i = s.i + 1
           \/ s.i + 1 = RelaxN /\ s1.pc = "Accumulating" /\ s1.k = s.k /\ s1.i = 0
      [] s.pc = "Accumulating" ->
           \/ s.i + 1 < CalN /\ s1.pc = "Accumulating" /\ s1.k = s.k /\ s1.i = s.i + 1
           \/ s.i + 1 = CalN /\ s1.pc = "Emit" /\ s1.k = s.k
      [] s.pc = "Emit" ->
           \/ s.k < Len(wl) /\ s1.pc = "Relaxing" /\ s1.k = s.k + 1 /\ s1.i = 0
           \/ s.k = Len(wl) /\ s1.pc = "Done"
      [] s.pc = "Done" -> s1.pc = "Returned"
      [] OTHER -> FALSE

\* C4 (amended): a sweep goes from Init, in the Rossler notebook through the
\* WarmN steps of the uncoupled loop, then for each value in order through
\* its RelaxN relaxation steps and then its CalN accumulation steps, and to
\* Done after the last value; every integrator call is made in the warm-up
\* loop or in the Relaxing or Accumulating phase of a value.
C4_PhaseOrder ==
    [][\A i \in Sweeps :
         /\ sw'[i] # sw[i] => PhaseFollows(sw[i], sw'[i], weight_list[i])
         /\ hist'[i].steps # hist[i].steps =>
              \/ sw[i].pc \in {"Relaxing", "Accumulating"} /\ sw[i].k >= 1
              \/ kind = "Rossler" /\ sw[i].pc = "Warm"]_vars

\* A Kuramoto sweep over two values is done after the integrator calls of
\* two relaxation and two accumulation loops.
C4_Witness ==
    \E i \in Sweeps :
        /\ kind = "Kuramoto" /\ sw[i].pc = "Done" /\ sw[i].k = 2
        /\ hist[i].steps = 2 * (RelaxN + CalN)

\* The list sweep i returns when it is the only sweep that runs, on a thread
\* whose generator is in the state it had when Parallel_net was called.
RunAlone(i) ==
    IF kind = "Rossler" THEN net_R(N, A_adj, weight_list[i])
    ELSE net_K(N, A_adj, weight_list[i], hist[i].g0)

\* C5 (the claim as stated): whatever the interleaving of the two sweeps, a
\* sweep returns the list it returns when it runs alone.
C5_SweepsDoNotInterfere ==
    \A i \in Sweeps : Returned(i) => sw[i].S_list = RunAlone(i)

\* What holds of the code: two sweeps that prange runs on two threads do not
\* interfere.
SweepsOnTwoThreadsDoNotInterfere ==
    thread[0] # thread[1] => C5_SweepsDoNotInterfere

InUnitInterval(r) == r # NaN /\ 0 <= r /\ r <= Q

\* C6 (the claim as stated): the order parameter of every accumulation step,
\* the running accumulator and every emitted measure lie in [0, 1].
C6_OrderParameterInUnitInterval ==
    \A i \in Sweeps :
        /\ \A m \in 1 .. Len(hist[i].samples) : InUnitInterval(hist[i].samples[m])
        /\ InUnitInterval(sw[i].S)
        /\ \A k \in 1 .. Len(sw[i].S_list) : InUnitInterval(sw[i].S_list[k])

\* What holds of the code: an order parameter that is finite lies in [0, 1].
FiniteOrderParameterInUnitInterval ==
    \A i \in Sweeps :
        /\ \A m \in 1 .. Len(hist[i].samples) :
             hist[i].samples[m] = NaN \/ InUnitInterval(hist[i].samples[m])
        /\ sw[i].S = NaN \/ InUnitInterval(sw[i].S)

RECURSIVE SumOfQuotients(_, _)
\* The sum over the first m samples of sample / cal_n.
SumOfQuotients(samples, m) ==
    IF m = 0 THEN 0
    ELSE FAdd(SumOfQuotients(samples, m - 1), FDiv(samples[m], CalN))

RECURSIVE SumOf(_, _)
SumOf(samples, m) == IF m = 0 THEN 0 ELSE FAdd(SumOf(samples, m - 1), samples[m])

\* C7: during and after the accumulation loop of a value the accumulator is
\* the sum of sample / cal_n over the samples taken so far for that value, one
\* per accumulation step and each the order parameter of the node state after
\* that step's integrator call; after the loop there are cal_n of them, so the
\* accumulator is their mean (up to the rounding of each quotient).
C7_MeasureIsMeanOfSamples ==
    \A i \in Sweeps :
        sw[i].pc \in {"Accumulating", "Emit"} =>
            LET samples == hist[i].samples
                n == Len(samples)
            IN /\ n = (IF sw[i].pc = "Emit" THEN CalN ELSE sw[i].i)
               /\ sw[i].S = SumOfQuotients(samples, n)
               /\ (sw[i].pc = "Emit" /\ sw[i].S # NaN) =>
                    /\ CalN * sw[i].S <= SumOf(samples, n)
                    /\ SumOf(samples, n) < CalN * (sw[i].S + CalN)

\* The accumulation loop of a sweep's second value is over, its samples are
\* not all equal, and the measure of the first value was not 0.
C7_Witness ==
    \E i \in Sweeps :
        /\ sw[i].pc = "Emit" /\ sw[i].k = 2
        /\ sw[i].S_list[1] > 0
        /\ \E m \in 1 .. Len(hist[i].samples) :
             hist[i].samples[m] # hist[i].samples[1]

\* ------------------------------------------- the coupling evaluator alone
\* Largest number of calls made on one set of arguments.
MaxCalls == 2
\* The values tried for the elements of a state array and for a weight.
StateVals == {0 - 500, 0, 1200, NaN}
WeightVals == {0, 300}

\* The first m edges e -> e + 1 of the ring, in one direction only.
DirectedRingPrefix(n, m) ==
    [ix \in (0 .. n - 1) \X (0 .. n - 1) |->
        IF \E e \in 0 .. m - 1 : ix[1] = e /\ ix[2] = (e + 1) % n /\ ix[1] # ix[2]
        THEN 1 ELSE 0]
\* The adjacency matrices whose np.nonzero is passed as the edge arrays.
EdgeMatrices(n) ==
    Adjacency(n) \cup {DirectedRingPrefix(n, m) : m \in 1 .. n}

\* No sweep runs.
Idle ==
    /\ kind = "none" /\ N = 0 /\ A_adj = <<>> /\ weight_list = <<>>
    /\ thread = <<>> /\ gen = <<>> /\ sw = <<>> /\ results = <<>>
    /\ ppc = "idle" /\ hist = <<>>
IdleFrame ==
    UNCHANGED <<kind, N, A_adj, weight_list, thread, gen, sw, results, ppc, hist>>

\* The caller's arrays before the first call (arg0), now (arg), the function
\* called last (fn), the number of calls so far and the result of the call
\* before the last one (prev).
InitCoupling ==
    /\ Idle
    /\ \E n \in 1 .. MaxN :
       \E A \in EdgeMatrices(n), v \in [0 .. n - 1 -> StateVals], w \in WeightVals :
         LET ids == Nonzero(A, n)
             a == [vars |-> v, weight |-> w, t |-> 0,
                   omega |-> [j \in 0 .. n - 1 |-> 100 * j],
                   c |-> [j \in 0 .. n - 1 |-> w],
                   post_ids |-> ids[1], pre_ids |-> ids[2], out |-> <<>>]
         IN probe = [arg0 |-> a, arg |-> a, fn |-> "none", calls |-> 0,
                     prev |-> <<>>]

CallCoupling ==
    /\ probe.calls < MaxCalls
    /\ probe.fn \in {"none", "coupling_func"}
    /\ probe' = [probe EXCEPT !.arg = coupling_func_call(probe.arg),
                              !.fn = "coupling_func",
                              !.calls = probe.calls + 1,
                              !.prev = probe.arg.out]
    /\ IdleFrame

CallKuramoto ==
    /\ probe.calls < MaxCalls
    /\ probe.fn \in {"none", "kuramoto"}
    /\ probe' = [probe EXCEPT !.arg = kuramoto_call(probe.arg),
                              !.fn = "kuramoto",
                              !.calls = probe.calls + 1,
                              !.prev = probe.arg.out]
    /\ IdleFrame

NextCoupling == CallCoupling \/ CallKuramoto
SpecCoupling == InitCoupling /\ [][NextCoupling]_vars

\* The positions of the edges that end at node j.
EdgesInto(a, j) == {e \in 1 .. Len(a.post_ids) : a.post_ids[e] = j}

RECURSIVE SumOverEdges(_, _)
\* The sum over the edges at the positions E of
\* weight * (state[source] - state[target]).
SumOverEdges(a, E) ==
    IF E = {} THEN 0
    ELSE LET e == CHOOSE x \in E : TRUE
         IN FAdd(FMul(a.weight, FSub(a.vars[a.pre_ids[e]], a.vars[a.post_ids[e]])),
                 SumOverEdges(a, E \ {e}))

\* C8: what coupling_func returns has one value per node, and the value of
\* node j is the sum over the edges that end at j of
\* weight * (state[source] - state[target]), which is 0 for a node that no
\* edge ends at.
C8_CouplingIsSumOverIncomingEdges ==
    (probe.fn = "coupling_func" /\ probe.calls >= 1) =>
        LET a == probe.arg0
            out == probe.arg.out
        IN /\ DOMAIN out = DOMAIN a.vars
           /\ \A j \in DOMAIN a.vars :
                /\ out[j] = SumOverEdges(a, EdgesInto(a, j))
                /\ EdgesInto(a, j) = {} => out[j] = 0

\* coupling_func has returned for a network whose last node has no edge,
\* with a value at each of the other nodes that is neither 0 nor non-finite.
C8_Witness ==
    /\ probe.fn = "coupling_func" /\ probe.calls >= 1
    /\ LET last == Len0(probe.arg0.vars) - 1
       IN /\ last >= 2
          /\ EdgesInto(probe.arg0, last) = {}
          /\ last \notin {probe.arg0.pre_ids[e] : e \in 1 .. Len(probe.arg0.pre_ids)}
          /\ \A j \in 0 .. last - 1 : probe.arg.out[j] \notin {0, NaN}

\* coupling_func has returned for a network with a node that two edges end
\* at, with a value at that node that is neither 0 nor non-finite.
C8_WitnessTwoEdges ==
    /\ probe.fn = "coupling_func" /\ probe.calls >= 1
    /\ \E j \in DOMAIN probe.arg0.vars :
         /\ Cardinality(EdgesInto(probe.arg0, j)) = 2
         /\ probe.arg.out[j] \notin {0, NaN}

\* C9: a call of coupling_func or of kuramoto leaves the caller's state
\* array, weight and edge arrays as they were, and a second call on the same
\* arguments returns what the first returned.
C9_CouplingEvaluatorIsPure ==
    probe.calls >= 1 =>
        /\ probe.arg.vars = probe.arg0.vars
        /\ probe.arg.weight = probe.arg0.weight
        /\ probe.arg.c = probe.arg0.c
        /\ probe.arg.omega = probe.arg0.omega
        /\ probe.arg.pre_ids = probe.arg0.pre_ids
        /\ probe.arg.post_ids = probe.arg0.post_ids
        /\ probe.calls >= 2 => probe.arg.out = probe.prev

\* coupling_func has been called twice on arguments for which it returns a
\* value that differs from the state.
C9_Witness ==
    /\ probe.calls = 2 /\ probe.fn = "coupling_func"
    /\ probe.arg.out # probe.arg0.vars
    /\ \E j \in DOMAIN probe.arg.out : probe.arg.out[j] \notin {0, NaN}

\* kuramoto has been called twice on arguments with edges.
C9_WitnessKuramoto ==
    /\ probe.calls = 2 /\ probe.fn = "kuramoto"
    /\ Len(probe.arg0.pre_ids) > 0
    /\ \E j \in DOMAIN probe.arg.out : probe.arg.out[j] \notin {0, NaN}

\* ------------------------------------------------------ the integrators alone
\* Largest number of integrator steps taken.
MaxSteps == 3
\* The step sizes tried, as reciprocals: dt = 1, 0.05 and 0.0001.
DtInvs == {1, dt_inv_K, dt_inv}
\* The phases tried for a node.
PhaseVals == {0 - 1571, 0, 785}

\* The networks tried: a Kuramoto network whose omega and c are the same for
\* every node, and an uncoupled Rossler network (I = 0) whose gamma is the
\* same for every node; the Rossler field, when it is not 0, is integrated
\* with the step size of its sweep only.
InitIntegrator ==
    /\ Idle
    /\ \E n \in 1 .. MaxN :
       \E A \in Adjacency(n), d \in DtInvs, sch \in {"RK4", "Heun"} :
         LET ids == Nonzero(A, n)
             zeros == [j \in 0 .. n - 1 |-> 0]
         IN \/ \E v \in [0 .. n - 1 -> PhaseVals], om \in {0, 500}, cc \in {0, 1000} :
                 probe = [scheme |-> sch, fun |-> "kuramoto",
                          x_init |-> v, x0 |-> v, t |-> 0, dti |-> d,
                          args |-> <<[j \in 0 .. n - 1 |-> om],
                                     [j \in 0 .. n - 1 |-> cc], ids[2], ids[1]>>,
                          steps |-> 0, ret |-> None]
            \/ \E gam \in {0, gamma_base} :
                 /\ A = RingPrefix(n, 0)
                 /\ gam # 0 => d = dt_inv
                 /\ probe = [scheme |-> sch, fun |-> "piecewise_Rossler",
                             x_init |-> Start_R(n, A).vars_nodes,
                             x0 |-> Start_R(n, A).vars_nodes, t |-> 0, dti |-> d,
                             args |-> <<zeros, alpha, beta, R, mu,
                                        [j \in 0 .. n - 1 |-> gam]>>,
                             steps |-> 0, ret |-> None]

\* RK4(fun, x0, t, dt, *args); t += dt
StepRK4 ==
    /\ probe.scheme = "RK4"
    /\ probe.steps < MaxSteps
    /\ LET call == RK4_K_call(probe.fun, probe.x0, probe.t, probe.dti, probe.args)
       IN probe' = [probe EXCEPT
                   !.x0 = call.x0,
                   !.ret = call.ret,
                   !.t = probe.t + 2,
                   !.steps = probe.steps + 1]
    /\ IdleFrame

\* Heun(fun, x0, t, dt, *args); t += dt
StepHeun ==
    /\ probe.scheme = "Heun"
    /\ probe.steps < MaxSteps
    /\ LET call == Heun_call(probe.fun, probe.x0, probe.t, probe.dti, probe.args)
       IN probe' = [probe EXCEPT
                   !.x0 = call.x0,
                   !.ret = call.ret,
                   !.t = probe.t + 2,
                   !.steps = probe.steps + 1]
    /\ IdleFrame

NextIntegrator == StepRK4 \/ StepHeun
SpecIntegrator == InitIntegrator /\ [][NextIntegrator]_vars

\* The field of the probe is 0 for every state: for kuramoto natural
\* frequency 0 and coupling strength 0 or no edge, for piecewise_Rossler
\* gamma 0.
ZeroField ==
    IF probe.fun = "kuramoto"
    THEN /\ \A j \in DOMAIN probe.args[1] : probe.args[1][j] = 0
         /\ \/ Len(probe.args[3]) = 0
            \/ \A j \in DOMAIN probe.args[2] : probe.args[2][j] = 0
    ELSE \A j \in DOMAIN probe.args[6] : probe.args[6][j] = 0

\* C10: under a field that is 0 everywhere the state after any number of
\* steps of RK4 or of Heun, of any of the step sizes, is the state before the
\* first step.
C10_ZeroFieldLeavesStateUnchanged ==
    ZeroField => probe.x0 = probe.x_init

\* Heun has taken all its steps under a zero field on a network with edges,
\* from a state that is not 0.
C10_Witness ==
    /\ ZeroField /\ probe.scheme = "Heun" /\ probe.steps = MaxSteps
    /\ probe.fun = "kuramoto" /\ Len(probe.args[3]) > 0
    /\ \E j \in DOMAIN probe.x_init : probe.x_init[j] # 0

\* RK4 has taken all its steps under a zero Rossler field, from a state that
\* is not 0.
C10_WitnessRK4 ==
    /\ ZeroField /\ probe.scheme = "RK4" /\ probe.steps = MaxSteps
    /\ probe.fun = "piecewise_Rossler"
    /\ \E j \in DOMAIN probe.x_init : probe.x_init[j] # 0

\* Under a field that is not 0 a step changes the state.
C10_WitnessMoving ==
    /\ ~ZeroField /\ probe.steps >= 1 /\ probe.x0 # probe.x_init

\* The state one step of the probe's scheme advances x0 to.
Advanced(p) ==
    IF p.scheme = "RK4" THEN RK4(p.fun, p.x0, p.t, p.dti, p.args)
    ELSE Heun(p.fun, p.x0, p.t, p.dti, p.args)

\* C11: a call of either scheme, made as a statement with the arguments
\* (fun, x0, t, dt, *args), leaves the advanced state in the caller's array
\* x0, whether the call returns the array (Heun) or nothing (RK4).
C11_IntegratorsAdvanceInPlace ==
    [][/\ probe'.x0 = Advanced(probe)
       /\ probe'.ret.none = (probe.scheme = "RK4")
       /\ ~probe'.ret.none => probe'.ret.val = probe'.x0]_vars

\* RK4 and Heun have each been called as a statement under a field that is
\* not 0: the call that returned nothing moved the caller's array.
C11_Witness ==
    /\ probe.steps >= 1 /\ probe.scheme = "RK4" /\ probe.fun = "kuramoto"
    /\ probe.ret.none /\ probe.x0 # probe.x_init

\* Heun has been called as a statement and moved the caller's array.
C11_WitnessHeun ==
    /\ probe.steps >= 1 /\ probe.scheme = "Heun" /\ probe.fun = "kuramoto"
    /\ ~probe.ret.none /\ probe.x0 # probe.x_init

\* Some element of the array is non-finite.
NonFinite(a) == \E j \in DOMAIN a : IsNaN(a[j])
Started(i) == sw[i].pc # "Init"

\* C12 (the claim as stated): in a Kuramoto sweep the local order parameter
\* of the current phases is finite at every node, the nodes of degree 0
\* included, and no non-finite value is in the coupling weights or in the
\* phases.
C12_DegreeZeroIsHandled ==
    \A i \in Sweeps :
        (kind = "Kuramoto" /\ Started(i)) =>
            /\ ~NonFinite(sw[i].weights)
            /\ ~NonFinite(sw[i].vars_nodes)
            /\ ~NonFinite(local_order_parameter(sw[i].vars_nodes, sw[i].pre_ids,
                                                sw[i].post_ids, sw[i].degrees))

\* What holds of the code: where every node has an edge nothing is non-finite.
NoDegreeZeroNoNaN ==
    \A i \in Sweeps :
        (kind = "Kuramoto" /\ Started(i)
           /\ \A j \in DOMAIN sw[i].degrees : sw[i].degrees[j] > 0) =>
            /\ ~NonFinite(sw[i].weights)
            /\ ~NonFinite(sw[i].vars_nodes)

\* C13 (the claim as stated): a sweep whose node state has a non-finite
\* component takes no further integration step and emits no measure.
C13_NonFiniteStateIsFatal ==
    [][\A i \in Sweeps :
         (Started(i) /\ NonFinite(sw[i].vars_nodes)) =>
             /\ hist'[i].steps = hist[i].steps
             /\ sw'[i].S_list = sw[i].S_list]_vars

\* ------------------------------------------ net on a topology of any shape
\* net(N, A_adj, weight_list) called with an m x m adjacency matrix, m equal
\* to N or not.
InitTopology ==
    /\ Idle
    /\ \E kd \in {"Rossler", "Kuramoto"}, n \in 1 .. MaxN, m \in 1 .. MaxN,
          len \in 1 .. MaxLen :
       \E A \in Adjacency(m) :
         probe = [kind |-> kd, N |-> n, M |-> m, A_adj |-> A,
                  weight_list |-> Backward(len), s |-> NotStarted, steps |-> 0]

\* numpy broadcasting of a 1-d array to length n: an array of length 1 is
\* repeated, an array of length n is itself.
Broadcast(a, n) == IF Len0(a) = 1 THEN [j \in 0 .. n - 1 |-> a[0]] ELSE a

\* Every array operation of a loop pass is defined: the arrays made from
\* A_adj broadcast against those made from N, and no edge index is outside
\* the node state.
ShapesFit(p) ==
    /\ p.M \in {1, p.N}
    /\ \A e \in 1 .. Len(p.s.pre_ids) : p.s.pre_ids[e] < p.N /\ p.s.post_ids[e] < p.N

\* The lines of net before its first loop.
NetInit ==
    /\ probe.s.pc = "Init"
    /\ probe' = [probe EXCEPT !.s =
                   IF probe.kind = "Rossler"
                   THEN NetInit_R(probe.N, probe.M, probe.A_adj)
                   ELSE NetInit_K(probe.N, probe.M, probe.A_adj,
                                  probe.weight_list, 0)]
    /\ IdleFrame

\* A pass of a loop of net (or the append after a loop), the arrays made
\* from A_adj broadcast where they are used.
NetStep ==
    /\ probe.s.pc \in {"Warm", "Relaxing", "Accumulating", "Emit"}
    /\ ShapesFit(probe)
    /\ LET s == probe.s
           wide == [s EXCEPT !.degrees = Broadcast(s.degrees, probe.N),
                             !.gamma = IF probe.kind = "Rossler"
                                       THEN Broadcast(s.gamma, probe.N)
                                       ELSE s.gamma]
           s1 == StepSweep(wide, probe.kind, probe.N, probe.weight_list)
       IN probe' = [probe EXCEPT
                      !.s = [s1 EXCEPT !.degrees = s.degrees, !.gamma = s.gamma],
                      !.steps = IF s.pc = "Emit" THEN probe.steps
                                ELSE probe.steps + 1]
    /\ IdleFrame

\* The first pass of the first loop on arrays whose shapes do not fit: the
\* array expression raises (gamma * (...) at line 84, r_sum_abs / degree_lit
\* at line 493, omega + c * I_couple at line 377), or, where an edge index
\* is outside the node state, the unchecked read vars[pre_ids] comes first
\* and the process may crash instead.
NetRaise ==
    /\ probe.s.pc \in {"Warm", "Relaxing"}
    /\ ~ShapesFit(probe)
    /\ \E outcome \in {"Raised", "Crashed"} :
         /\ outcome = "Crashed" =>
              /\ probe.kind = "Kuramoto"
              /\ \E e \in 1 .. Len(probe.s.pre_ids) : probe.s.pre_ids[e] >= probe.N
         /\ probe' = [probe EXCEPT !.s.pc = outcome]
    /\ IdleFrame

NextTopology == NetInit \/ NetStep \/ NetRaise
SpecTopology == InitTopology /\ [][NextTopology]_vars

\* C14 (the claim as stated): a sweep on an adjacency matrix whose dimension
\* is not N fails in its initialization: it leaves Init only for the failed
\* state and never enters a loop.
C14_MalformedTopologyFailsAtInit ==
    probe.M # probe.N => probe.s.pc \in {"Init", "Failed"}

\* What holds of the code: a sweep on a well-formed topology never fails.
WellFormedTopologyRuns ==
    probe.M = probe.N => probe.s.pc \notin {"Failed", "Raised", "Crashed"}

\* A Rossler sweep on a 1 x 1 matrix and more than one node has returned its
\* list of measures.
MalformedTopologySilentlyUsed ==
    /\ probe.M = 1 /\ probe.N > 1 /\ probe.kind = "Rossler"
    /\ probe.s.pc = "Done" /\ Len(probe.s.S_list) = Len(probe.weight_list)
    /\ probe.steps > 0

\* The network has no edge.
NoEdges == Len(Nonzero(A_adj, N)[1]) = 0
\* The two sweeps start from the same node state and per-node constants: the
\* Rossler sweeps always do, the Kuramoto sweeps when they draw from two
\* generators in the same state.
SameStart ==
    kind = "Kuramoto" => (thread[0] # thread[1] /\ hist[0].g0 = hist[1].g0)
\* Both sweeps have returned, for sequences of one length that differ.
BothReturnedOnDifferentValues ==
    /\ Returned(0) /\ Returned(1)
    /\ Len(weight_list[0]) = Len(weight_list[1])
    /\ weight_list[0] # weight_list[1]
\* a == b for two floats: a non-finite value equals nothing.
FEq(a, b) == ~IsNaN(a) /\ ~IsNaN(b) /\ a = b

\* C15 (the claim as stated): on a network without edges two sweeps from the
\* same start over different sequences of one length return identical
\* measures.
C15_DisconnectedIgnoresCoupling ==
    (NoEdges /\ SameStart /\ BothReturnedOnDifferentValues) =>
        \A k \in 1 .. Len(sw[0].S_list) : FEq(sw[0].S_list[k], sw[1].S_list[k])

\* What holds of the code: the claim for the Rossler sweep.
DisconnectedIgnoresCoupling_R ==
    kind = "Rossler" => C15_DisconnectedIgnoresCoupling

\* The Rossler sweeps have returned on a network of several nodes without
\* edges, for two sequences that differ.
DisconnectedReturned_R ==
    /\ kind = "Rossler" /\ N >= 2 /\ NoEdges /\ BothReturnedOnDifferentValues
    /\ sw[0].S_list[1] > 0

\* The Kuramoto sweep runs on the ring of three nodes.
OnRing == kind = "Kuramoto" /\ N = 3 /\ A_adj = RingPrefix(3, 3)
\* Sweep i takes an integration step.
Steps(i) == hist'[i].steps = hist[i].steps + 1
\* One Heun step of dt = 0.05 under the derivative omega, the coupling sum
\* not evaluated: k1 = k2 = omega.
FreeStep(phases, omega) ==
    VAdd(phases, VDiv(VAdd(omega, omega), 2 * dt_inv_K))
\* The coupling sum of kuramoto at the state of sweep i.
CouplingSum(i) ==
    Bincount(sw[i].post_ids,
             [e \in 1 .. Len(sw[i].pre_ids) |->
                Sin(FSub(sw[i].vars_nodes[sw[i].pre_ids[e]],
                         sw[i].vars_nodes[sw[i].post_ids[e]]))], 3)

\* C16: on the ring of three nodes every step of a value of coupling
\* strength 0 has the natural frequencies as the phase derivative, moves the
\* phases as a step without the coupling sum does, and in the accumulation
\* loop samples the order parameter of the phases so moved.
C16_ZeroCouplingIsFreeDrift ==
    [][\A i \in Sweeps :
         (OnRing /\ Steps(i) /\ sw[i].weight = 0) =>
             /\ kuramoto(sw[i].vars_nodes, sw[i].t, sw[i].omega, AdaptWeights(sw[i]),
                         sw[i].pre_ids, sw[i].post_ids) = sw[i].omega
             /\ sw'[i].vars_nodes = FreeStep(sw[i].vars_nodes, sw[i].omega)
             /\ sw[i].pc = "Accumulating" =>
                  hist'[i].samples[Len(hist'[i].samples)] =
                      order_parameter(FreeStep(sw[i].vars_nodes, sw[i].omega))]_vars

\* A sweep on the ring has taken an accumulation step of a value of coupling
\* strength 0 from phases whose coupling sum is not 0, with natural
\* frequencies that moved them.
C16_Witness ==
    \E i \in Sweeps :
        /\ OnRing /\ sw[i].weight = 0 /\ sw[i].pc = "Accumulating" /\ sw[i].i >= 1
        /\ \E j \in 0 .. 2 : CouplingSum(i)[j] # 0
        /\ sw[i].vars_nodes # InitialState(i)

\* The number of integrator calls of a whole sweep over a sequence of the
\* given length: the warm-up loop (Rossler only) and, per value, the
\* relaxation loop and the accumulation loop.
StaticSteps(kd, len) ==
    (IF kd = "Rossler" THEN WarmN ELSE 0) + len * (RelaxN + CalN)

\* What sweep i has left to do before Done: integrator calls and appends.
Remaining(i) ==
    (StaticSteps(kind, Len(weight_list[i])) - hist[i].steps)
        + (Len(weight_list[i]) - Len(sw[i].S_list))

\* C17: a sweep terminates after a number of integrator calls fixed by the
\* length of its sequence and the loop counts.  What it has left to do is
\* never negative and shrinks by one with every step it takes, whatever its
\* node state and coupling values; until Done it is in a loop pass or at an
\* append, never waiting; and it is Done exactly when nothing is left, having
\* made exactly the fixed number of integrator calls.
C17_SweepTerminatesInStaticSteps ==
    /\ [](\A i \in Sweeps :
            Started(i) =>
                /\ Remaining(i) >= 0
                /\ Returned(i) <=> Remaining(i) = 0
                /\ Returned(i) =>
                     hist[i].steps = StaticSteps(kind, Len(weight_list[i]))
                /\ ~Returned(i) =>
                     sw[i].pc \in {"Warm", "Relaxing", "Accumulating", "Emit"})
    /\ [][\A i \in Sweeps :
            (Started(i) /\ ~Returned(i) /\ sw'[i] # sw[i]) =>
                Remaining(i)' = Remaining(i) - 1]_vars

\* A sweep has reached Done over two values with two different measures.
C17_Witness ==
    \E i \in Sweeps :
        /\ Returned(i) /\ Len(weight_list[i]) = 2
        /\ hist[i].steps = StaticSteps(kind, 2)
        /\ sw[i].S_list[1] # sw[i].S_list[2]

\* C18: no step changes the adjacency matrix, and no step of a sweep that has
\* started changes its edge arrays, degree vector, adaptive-node subset,
\* natural frequencies or frequency scales.
C18_NetworkAndConstantsAreFrozen ==
    [][/\ A_adj' = A_adj
       /\ N' = N
       /\ \A i \in Sweeps :
            Started(i) =>
                /\ sw'[i].pre_ids = sw[i].pre_ids
                /\ sw'[i].post_ids = sw[i].post_ids
                /\ sw'[i].degrees = sw[i].degrees
                /\ sw'[i].Nodes_adaptive = sw[i].Nodes_adaptive
                /\ sw'[i].omega = sw[i].omega
                /\ sw'[i].gamma = sw[i].gamma]_vars

\* A Kuramoto sweep on a network with edges has reached Done over two values,
\* its weights rewritten by the adaptive rule, and still holds the edge
\* arrays and degrees of the adjacency matrix.
C18_Witness ==
    \E i \in Sweeps :
        /\ kind = "Kuramoto" /\ Returned(i) /\ Len(weight_list[i]) = 2
        /\ Len(sw[i].pre_ids) > 0
        /\ sw[i].weights # Ones(sw[i].weight, N)
        /\ sw[i].pre_ids = Nonzero(A_adj, N)[2]
        /\ sw[i].degrees = Degrees(A_adj, N)
        /\ \E j \in DOMAIN sw[i].omega : sw[i].omega[j] # 0

\* The same for a Rossler sweep and its frequency scales.
C18_Witness_R ==
    \E i \in Sweeps :
        /\ kind = "Rossler" /\ Returned(i) /\ Len(weight_list[i]) = 2
        /\ Len(sw[i].pre_ids) > 0
        /\ sw[i].gamma = Start_R(N, A_adj).gamma

\* C19 (the claim as stated, read with the closed interval and for finite
\* phases only, so that a violation is a phase that left the range and not a
\* draw of the end point or a non-finite value): every finite phase of a
\* Kuramoto sweep lies in [-pi, pi].
C19_PhaseStaysInRange ==
    \A i \in Sweeps :
        (kind = "Kuramoto" /\ Started(i)) =>
            \A j \in DOMAIN sw[i].vars_nodes :
                \/ IsNaN(sw[i].vars_nodes[j])
                \/ (0 - Pi <= sw[i].vars_nodes[j] /\ sw[i].vars_nodes[j] <= Pi)

\* What holds of the code: the phases net draws lie in [-pi, pi).
InitialPhaseInRange ==
    \A i \in Sweeps :
        (kind = "Kuramoto" /\ Started(i) /\ hist[i].steps = 0) =>
            \A j \in DOMAIN sw[i].vars_nodes :
                0 - Pi <= sw[i].vars_nodes[j] /\ sw[i].vars_nodes[j] < Pi

\* C20 (the claim as stated): the seed fixes what a Kuramoto sweep draws and
\* returns: its natural frequencies and adaptive nodes are the draws of a
\* generator seeded with seed, and the list it returns is the list of the
\* sweep run alone from that generator state, whatever the other sweep does.
C20_DeterministicGivenSeed ==
    \A i \in Sweeps :
        (kind = "Kuramoto" /\ Started(i)) =>
            /\ sw[i].omega = Draws(N, Seeded(seed)).omega
            /\ Returned(i) =>
                 sw[i].S_list = net_K(N, A_adj, weight_list[i], Seeded(seed))

\* What holds of the code: the Rossler sweep, which draws nothing, returns
\* the list of the sweep run alone.
DeterministicSweep_R ==
    \A i \in Sweeps :
        (kind = "Rossler" /\ Returned(i)) =>
            sw[i].S_list = net_R(N, A_adj, weight_list[i])

\* What holds of the code: a Kuramoto sweep is fixed by the state of its
\* thread's generator when the sweep starts.
DeterministicGivenGeneratorState ==
    [][\A i \in Sweeps :
         (kind = "Kuramoto" /\ ~Started(i) /\ Started(i)') =>
             sw'[i] = Start_K(N, A_adj, weight_list[i], gen[thread[i]])]_vars

\* Sweep i takes a pass of its relaxation loop.
RelaxSteps(i) == sw[i].pc = "Relaxing" /\ Steps(i)

\* C23: a pass of the relaxation loop of either notebook appends no measure,
\* takes no sample of the order parameter and leaves the accumulator as it
\* is; the accumulator is set to 0 by the statement after the loop, once the
\* last pass is over.
C23_RelaxingRecordsNothing ==
    [][\A i \in Sweeps :
         RelaxSteps(i) =>
             /\ sw'[i].S_list = sw[i].S_list
             /\ hist'[i].sums = hist[i].sums
             /\ sw'[i].pc \in {"Relaxing", "Accumulating"}
             /\ sw'[i].pc = "Relaxing" =>
                    /\ sw'[i].S = sw[i].S
                    /\ hist'[i].samples = hist[i].samples
             /\ sw'[i].pc = "Accumulating" =>
                    /\ sw'[i].S = 0
                    /\ hist'[i].samples = <<>>]_vars

\* A sweep is inside the relaxation loop of its second value: the
\* accumulator still holds the measure of the first value, which is not 0,
\* and the list holds that measure alone.
C23_Witness ==
    \E i \in Sweeps :
        /\ sw[i].pc = "Relaxing" /\ sw[i].k = 2 /\ sw[i].i >= 1
        /\ sw[i].S_list = <<sw[i].S>>
        /\ ~IsNaN(sw[i].S) /\ sw[i].S # 0
        /\ Len(hist[i].samples) = CalN

\* Row i of results is the list sweep i returned, measure for measure.
RowIsOwnList(i) ==
    /\ Len0(results[i]) = Len(sw[i].S_list)
    /\ \A c \in DOMAIN results[i] : results[i][c] = sw[i].S_list[c + 1]

\* C26 (the claim as stated): when Parallel_net has returned both sweeps have
\* returned, and row i of the result holds exactly the measures of the sweep
\* over weight_list[i], for i = 0 and i = 1.
C26_RowsHoldOwnSweepAfterJoin ==
    ppc = "returned" =>
        \A i \in Sweeps : sw[i].pc = "Returned" /\ RowIsOwnList(i)

\* What holds of the code: Parallel_net returns only after both sweeps have
\* returned, and for two sequences of one length each row is its own sweep's
\* list.
RowsHoldOwnSweepOfEqualLengths ==
    ppc = "returned" =>
        \A i \in Sweeps :
            /\ sw[i].pc = "Returned"
            /\ Len(weight_list[0]) = Len(weight_list[1]) => RowIsOwnList(i)

\* What holds of the code: a row changes only when its own sweep stores its
\* list, whatever the other sweep does.
NoSweepWritesTheOtherRow ==
    [][\A i \in Sweeps :
         results'[i] # results[i] =>
             /\ sw[i].pc = "Done" /\ sw'[i].pc = "Returned"
             /\ results'[1 - i] = results[1 - i]
             /\ sw'[1 - i] = sw[1 - i]]_vars

\* Parallel_net has returned two rows of two measures that differ, each the
\* list of its own sweep.
RowsReturnedApart ==
    /\ ppc = "returned" /\ results[0] # results[1]
    /\ RowIsOwnList(0) /\ RowIsOwnList(1)
    /\ Len0(results[0]) = 2

\* ------------------------------------- the adaptive rule on a subset of nodes
\* Lines 521-525 for a fraction f of adaptive nodes: N_adaptive = int(f * N)
\* and Nodes_adaptive = np.sort(idx[:N_adaptive]) of the shuffled idx.
NodesAdaptive(n, f, idx) == {idx[q] : q \in 0 .. ((f * n) \div Q) - 1}

\* The values of f_adaptive tried: the notebook's 1. (every node adaptive),
\* and 0.5 and 0. as the line is edited to.
Fractions == {0, Q \div 2, f_adaptive}

\* net(N, A_adj, w_list) of the Kuramoto notebook called on its own, on a
\* thread whose generator is at g, with the fraction f at line 521.
InitAdaptive ==
    /\ Idle
    /\ \E n \in 1 .. MaxN, len \in 1 .. MaxLen, f \in Fractions, g \in 0 .. MaxGen :
       \E A \in Adjacency(n), wl \in {Forward(len), Backward(len)} :
         probe = [N |-> n, A_adj |-> A, w_list |-> wl, f |-> f, g |-> g,
                  s |-> NotStarted, steps |-> 0]

\* The lines of net before its first loop.
AdaptiveStart ==
    /\ probe.s.pc = "Init"
    /\ probe' = [probe EXCEPT !.s =
                   [Start_K(probe.N, probe.A_adj, probe.w_list, probe.g)
                      EXCEPT !.Nodes_adaptive =
                                 NodesAdaptive(probe.N, probe.f,
                                               Draws(probe.N, probe.g).idx)]]
    /\ IdleFrame

\* A pass of a loop of net, or the append after the accumulation loop.
AdaptiveStep ==
    /\ probe.s.pc \in {"Relaxing", "Accumulating", "Emit"}
    /\ probe' = [probe EXCEPT
                   !.s = StepSweep(probe.s, "Kuramoto", probe.N, probe.w_list),
                   !.steps = IF probe.s.pc = "Emit" THEN probe.steps
                             ELSE probe.steps + 1]
    /\ IdleFrame

NextAdaptive == AdaptiveStart \/ AdaptiveStep
SpecAdaptive == InitAdaptive /\ [][NextAdaptive]_vars

\* The sweep is in a loop of a value, or at the append after it.
InValue(s) == s.pc \in {"Relaxing", "Accumulating", "Emit"}
\* The nodes outside the adaptive subset.
NonAdaptive(p) == (0 .. p.N - 1) \ p.s.Nodes_adaptive

\* C22: when the relaxation of a value begins the weight of every node is
\* the value, and before and after every pass of the value's relaxation and
\* accumulation loops the weight of every node outside the adaptive subset is
\* the value.
C22_NonAdaptiveWeightIsValue ==
    InValue(probe.s) =>
        /\ (probe.s.pc = "Relaxing" /\ probe.s.i = 0) =>
               probe.s.weights = Ones(probe.s.weight, probe.N)
        /\ \A j \in NonAdaptive(probe) : probe.s.weights[j] = probe.s.weight

\* The sweep is in the accumulation loop of its second value, which is not
\* 0, with a node outside the adaptive subset and an adaptive node whose
\* weight the rule has moved away from the value.
C22_Witness ==
    /\ probe.s.pc = "Accumulating" /\ probe.s.i >= 1 /\ probe.s.k = 2
    /\ probe.s.weight # 0
    /\ NonAdaptive(probe) # {}
    /\ \E j \in probe.s.Nodes_adaptive :
           ~IsNaN(probe.s.weights[j]) /\ probe.s.weights[j] # probe.s.weight

\* ------------------------------------------- the vector field at the corner
\* The values of x tried: below, just below, at, just above and above 3.
XVals == {0 - Q, g_threshold - 1, g_threshold, g_threshold + 1, g_threshold + Q}
\* The values of z tried.
ZVals == {0, z0_init}

\* The state matrix of n nodes with the given x and z rows and y = 0.2.
StateOf(n, xs, zs) ==
    [ix \in (0 .. 2) \X (0 .. n - 1) |->
        CASE ix[1] = 0 -> xs[ix[2]]
          [] ix[1] = 1 -> y0_init
          [] OTHER -> zs[ix[2]]]

\* piecewise_Rossler about to be called on a state of one or two nodes, with
\* no coupling input and the frequency scale of a node of degree 1.
InitField ==
    /\ Idle
    /\ \E n \in 1 .. MaxN - 1 :
       \E xs \in [0 .. n - 1 -> XVals], zs \in [0 .. n - 1 -> ZVals] :
         probe = [N |-> n, vars |-> StateOf(n, xs, zs),
                  I |-> Ones(0, n), gamma |-> Ones(gamma_base, n),
                  called |-> FALSE, res |-> <<>>, steps |-> 0]

\* res = piecewise_Rossler(vars, t, I, alpha, beta, R, mu, gamma)
CallField ==
    /\ ~probe.called
    /\ probe' = [probe EXCEPT
                   !.called = TRUE,
                   !.res = piecewise_Rossler(probe.vars, 0, probe.I, alpha, beta,
                                             R, mu, probe.gamma)]
    /\ IdleFrame

\* RK4(piecewise_Rossler, vars, t, dt, I, alpha, beta, R, mu, gamma): the
\* state moves, across the corner where it is near it.
StepField ==
    /\ probe.called /\ probe.steps < MaxSteps
    /\ probe' = [probe EXCEPT
                   !.vars = RK4_call("piecewise_Rossler", probe.vars, 0, dt_inv,
                                     <<probe.I, alpha, beta, R, mu, probe.gamma>>).x0,
                   !.called = FALSE,
                   !.res = <<>>,
                   !.steps = probe.steps + 1]
    /\ IdleFrame

NextField == CallField \/ StepField
SpecField == InitField /\ [][NextField]_vars

\* The x and z of node j of the probe, and the third component of the
\* derivative returned for it.
XOf(j) == probe.vars[<<0, j>>]
ZOf(j) == probe.vars[<<2, j>>]
DzOf(j) == probe.res[<<2, j>>]

\* C25: in the derivative piecewise_Rossler returns, dz/dt of node j is
\* gamma * (0 - z) where the node's own x is at most 3, 3 included, and
\* gamma * (mu * (x - 3) - z) where it is above 3, whatever the x of the
\* other nodes; the two branches agree at x = 3.
C25_ThresholdIsExact ==
    /\ FScale(mu, 3 * Q - 3 * Q) = 0
    /\ probe.called =>
         \A j \in 0 .. probe.N - 1 :
            /\ XOf(j) <= 3 * Q => DzOf(j) = probe.gamma[j] * (0 - ZOf(j))
            /\ XOf(j) > 3 * Q =>
                 DzOf(j) = probe.gamma[j] * (mu * (XOf(j) - 3 * Q) - ZOf(j))

\* The field has been called on two nodes, one with x exactly 3 and one with
\* x just above it: the first has g = 0, the second g = mu * 0.001.
C25_Witness ==
    /\ probe.called /\ probe.N = 2
    /\ \E j, l \in 0 .. 1 :
         /\ XOf(j) = 3 * Q /\ DzOf(j) = probe.gamma[j] * (0 - ZOf(j))
         /\ XOf(l) = 3 * Q + 1 /\ DzOf(l) = probe.gamma[l] * (mu - ZOf(l))

\* The field has been called after a step of the integrator on a state that
\* is off the values tried at the start.
C25_WitnessStepped ==
    /\ probe.called /\ probe.steps >= 1
    /\ \E j \in 0 .. probe.N - 1 : XOf(j) \notin XVals

\* ------------------------------------------- the edge arrays and the degrees
\* The most non-zero entries of a matrix tried below.
MaxEdges == 4
\* The N x N 0/1 matrices tried: every matrix, symmetric or not, with or
\* without diagonal entries, of at most MaxEdges non-zero entries, and the
\* undirected graphs of Adjacency.
Matrices(n) ==
    {A \in [(0 .. n - 1) \X (0 .. n - 1) -> {0, 1}] :
        Cardinality({ix \in DOMAIN A : A[ix] = 1}) <= MaxEdges}
      \cup Adjacency(n)

\* net about to be called on a 0/1 matrix.
InitEdges ==
    /\ Idle
    /\ \E n \in 1 .. MaxN : \E A \in Matrices(n) :
         probe = [N |-> n, A_adj |-> A, s |-> NotStarted]

\* Lines 123-145 of net (piecewise Rossler).
EdgesR ==
    /\ probe.s.pc = "Init"
    /\ probe' = [probe EXCEPT !.s = Start_R(probe.N, probe.A_adj)]
    /\ IdleFrame

\* Lines 508-532 of net (Kuramoto).
EdgesK ==
    /\ probe.s.pc = "Init"
    /\ probe' = [probe EXCEPT !.s = Start_K(probe.N, probe.A_adj, Forward(1), 0)]
    /\ IdleFrame

NextEdges == EdgesR \/ EdgesK
SpecEdges == InitEdges /\ [][NextEdges]_vars

\* A[row, column] = A[column, row] everywhere.
Symmetric(A) == \A ix \in DOMAIN A : A[ix] = A[<<ix[2], ix[1]>>]
\* The positions of the edge arrays.
Edges(s) == 1 .. Len(s.post_ids)

\* C27: the edge arrays and the degrees net derives from an N x N 0/1 matrix:
\* pre_ids and post_ids have one length, every index is in [0, N), the edges
\* are the non-zero entries of the matrix, each once, degrees[j] is the number
\* of edges whose post index is j, and for a symmetric matrix every edge has
\* its reverse among the edges.
C27_EdgesAndDegreesConsistent ==
    probe.s.pc # "Init" =>
        LET s == probe.s
        IN /\ Len(s.pre_ids) = Len(s.post_ids)
           /\ \A e \in Edges(s) :
                  s.pre_ids[e] \in 0 .. probe.N - 1 /\ s.post_ids[e] \in 0 .. probe.N - 1
           /\ {<<s.post_ids[e], s.pre_ids[e]>> : e \in Edges(s)} =
                  {ix \in DOMAIN probe.A_adj : probe.A_adj[ix] = 1}
           /\ \A e, f \in Edges(s) :
                  (s.post_ids[e] = s.post_ids[f] /\ s.pre_ids[e] = s.pre_ids[f]) => e = f
           /\ \A j \in 0 .. probe.N - 1 :
                  s.degrees[j] = Cardinality({e \in Edges(s) : s.post_ids[e] = j})
           /\ Symmetric(probe.A_adj) =>
                  \A e \in Edges(s) : \E f \in Edges(s) :
                      s.pre_ids[f] = s.post_ids[e] /\ s.post_ids[f] = s.pre_ids[e]

\* net has derived the edges of a matrix that is not symmetric, in which a
\* node has two incoming edges and no outgoing one.
C27_Witness ==
    /\ probe.s.pc # "Init" /\ ~Symmetric(probe.A_adj)
    /\ \E j \in 0 .. probe.N - 1 :
         /\ probe.s.degrees[j] = 2
         /\ \A e \in Edges(probe.s) : probe.s.pre_ids[e] # j

\* net has derived the edges of the ring of three nodes: six edges, every
\* degree 2.
C27_WitnessRing ==
    /\ probe.s.pc # "Init" /\ probe.N = 3 /\ probe.A_adj = RingPrefix(3, 3)
    /\ Len(probe.s.pre_ids) = 6
    /\ \A j \in 0 .. 2 : probe.s.degrees[j] = 2

\* ------------------------------------------------------ one sweep on its own
\* The positions a thread's generator is at when a sweep of n nodes starts on
\* it: where the process left it, or where an earlier sweep's draws did.
StartPositions(n) == (0 .. MaxGen) \cup {Draws(n, g).next : g \in 0 .. MaxGen}

\* net(N, A_adj, weight_list) of either notebook called on its own, the
\* Kuramoto one on a thread whose generator is at g.
InitSingle ==
    /\ Idle
    /\ \E kd \in {"Rossler", "Kuramoto"}, n \in 1 .. MaxN, len \in 1 .. MaxLen :
       \E A \in Adjacency(n), wl \in {Forward(len), Backward(len)},
          g \in StartPositions(n) :
         /\ kd = "Rossler" => g = 0
         /\ probe = [kind |-> kd, N |-> n, A_adj |-> A, weight_list |-> wl,
                     g |-> g, s |-> NotStarted]

\* The lines of net before its first loop.
SingleStart ==
    /\ probe.s.pc = "Init"
    /\ probe' = [probe EXCEPT !.s =
                   IF probe.kind = "Rossler" THEN Start_R(probe.N, probe.A_adj)
                   ELSE Start_K(probe.N, probe.A_adj, probe.weight_list, probe.g)]
    /\ IdleFrame

\* A pass of a loop of net, or the append after the accumulation loop.
SingleStep ==
    /\ probe.s.pc \in {"Warm", "Relaxing", "Accumulating", "Emit"}
    /\ probe' = [probe EXCEPT !.s =
                   StepSweep(probe.s, probe.kind, probe.N, probe.weight_list)]
    /\ IdleFrame

NextSingle == SingleStart \/ SingleStep
SpecSingle == InitSingle /\ [][NextSingle]_vars

\* The list net returns for the sequence wl on the network, the initial state
\* and the per-node constants of the probe.
NetOn(wl) ==
    IF probe.kind = "Rossler" THEN net_R(probe.N, probe.A_adj, wl)
    ELSE net_K(probe.N, probe.A_adj, wl, probe.g)

\* C30: when net returns its list for the whole sequence, the list net
\* returns for any prefix of the sequence, from the same initial state and
\* per-node constants, is the prefix of that list.
C30_PrefixOfSequenceGivesPrefixOfMeasures ==
    probe.s.pc = "Done" =>
        \A p \in 1 .. Len(probe.weight_list) :
            NetOn(SubSeq(probe.weight_list, 1, p)) = SubSeq(probe.s.S_list, 1, p)

\* A sweep on a network with edges has returned two finite measures that
\* differ for two values; the sweep over the first value alone returns the
\* first of them, and the sweep over the second value alone does not return
\* the second.
C30_Witness ==
    /\ probe.s.pc = "Done" /\ Len(probe.weight_list) = 2
    /\ Len(probe.s.pre_ids) > 0
    /\ ~IsNaN(probe.s.S_list[1]) /\ ~IsNaN(probe.s.S_list[2])
    /\ probe.s.S_list[1] # probe.s.S_list[2]
    /\ NetOn(<<probe.weight_list[1]>>) = <<probe.s.S_list[1]>>
    /\ NetOn(<<probe.weight_list[2]>>) # <<probe.s.S_list[2]>>

\* The same for a sweep of the Kuramoto notebook.
C30_Witness_K == C30_Witness /\ probe.kind = "Kuramoto"

\* The sweep takes a pass of its relaxation or its accumulation loop.
LoopStep ==
    /\ probe.s.pc \in {"Relaxing", "Accumulating"}
    /\ probe'.s # probe.s
\* r_local of line 539 and 549: the local order parameter of the phases of s.
r_local_of(s) ==
    local_order_parameter(s.vars_nodes, s.pre_ids, s.post_ids, s.degrees)

\* C21: in every pass of the relaxation and of the accumulation loop of the
\* Kuramoto sweep the weight of every adaptive node j is set to
\* w * r_local[j], with r_local the local order parameter of the phases the
\* pass starts from and w the current value, and the integrator is called
\* with the weights so set.
C21_AdaptiveWeightIsValueTimesLocalOrder ==
    [][(probe.kind = "Kuramoto" /\ LoopStep) =>
          /\ \A j \in probe.s.Nodes_adaptive :
                 probe'.s.weights[j] =
                     FMul(probe.s.weight, r_local_of(probe.s)[j])
          /\ probe'.s.vars_nodes =
                 Heun("kuramoto", probe.s.vars_nodes, probe.s.t, dt_inv_K,
                      <<probe.s.omega, probe'.s.weights, probe.s.pre_ids,
                        probe.s.post_ids>>)]_vars

\* A Kuramoto sweep is in the accumulation loop of a value that is not 0,
\* after passes of both loops, with finite weights of which one is neither 0
\* nor the value itself.
C21_Witness ==
    /\ probe.kind = "Kuramoto" /\ probe.s.pc = "Accumulating" /\ probe.s.i >= 1
    /\ probe.s.weight # 0
    /\ ~NonFinite(probe.s.weights)
    /\ \E j \in probe.s.Nodes_adaptive :
           probe.s.weights[j] \notin {0, probe.s.weight}

\* The sweep state with its statistic and its time variable wiped, at the
\* head of a relaxation loop.
Forget(s) == [s EXCEPT !.pc = "Relaxing", !.i = 0, !.S = 0, !.t = 0]
\* What a loop pass works on and leaves for the next: the node state and the
\* coupling weights.
Dynamics(s) == [vars_nodes |-> s.vars_nodes, weights |-> s.weights]

RECURSIVE RelaxTimes(_, _, _)
\* k passes of the relaxation loop body from s.
RelaxTimes(s, kd, k) ==
    IF k = 0 THEN s
    ELSE RelaxTimes(IF kd = "Rossler" THEN RelaxStep_R(Forget(s))
                    ELSE RelaxStep_K(Forget(s)), kd, k - 1)

RECURSIVE AccTimes(_, _, _, _)
\* k passes of the accumulation loop from s.
AccTimes(s, kd, n, k) ==
    IF k = 0 THEN s
    ELSE AccTimes(IF kd = "Rossler" THEN AccStep_R(s, n) ELSE AccStep_K(s),
                  kd, n, k - 1)

\* C24: from any state of the accumulation loop, the passes the loop has
\* left give the node state and the weights that as many passes of the
\* relaxation loop body give from the same node state, weights and value with
\* the statistic and the time variable wiped.
C24_AccumulatingStepsAsRelaxing ==
    probe.s.pc = "Accumulating" =>
        \A k \in 1 .. CalN - probe.s.i :
            Dynamics(AccTimes(probe.s, probe.kind, probe.N, k)) =
                Dynamics(RelaxTimes(probe.s, probe.kind, k))

\* A sweep on a network with edges is at the head of the accumulation loop
\* of a value that is not 0, and the passes of the loop move the node state,
\* collect a statistic and advance the time variable.
C24_Witness ==
    /\ probe.s.pc = "Accumulating" /\ probe.s.i = 0 /\ probe.s.weight # 0
    /\ Len(probe.s.pre_ids) > 0
    /\ ~NonFinite(IF probe.kind = "Rossler" THEN Row(probe.s.vars_nodes, 0)
                  ELSE probe.s.vars_nodes)
    /\ LET a == AccTimes(probe.s, probe.kind, probe.N, CalN)
       IN /\ a.vars_nodes # probe.s.vars_nodes
          /\ a.S # 0
          /\ a.t # RelaxTimes(probe.s, probe.kind, CalN).t

\* The same for a sweep of the Kuramoto notebook.
C24_Witness_K == C24_Witness /\ probe.kind = "Kuramoto"

\* Icoup of lines 157 and 164: the coupling input at the node state of s.
Icoup_of(s) == coupling_func(Row(s.vars_nodes, 0), s.weight, s.pre_ids, s.post_ids)
\* The Rossler field of the sweep s at v under the coupling input I.
Field_R(s, v, I) == piecewise_Rossler(v, 0, I, alpha, beta, R, mu, s.gamma)
\* The Kuramoto field of the sweep s at v under the weights W.
Field_K(s, v, W) == kuramoto(v, 0, s.omega, W, s.pre_ids, s.post_ids)
\* The four stages of RK4 from the node state of s, each under the same
\* coupling input I.
StagesRK4(s, I) ==
    LET x0 == s.vars_nodes
        k1 == Field_R(s, x0, I)
        k2 == Field_R(s, VAdd(x0, VDiv(k1, 2 * dt_inv)), I)
        k3 == Field_R(s, VAdd(x0, VDiv(k2, 2 * dt_inv)), I)
        k4 == Field_R(s, VAdd(x0, VDiv(k3, dt_inv)), I)
    IN VAdd(x0, VDiv(VAdd(VAdd(k1, VScale(2, k2)), VAdd(VScale(2, k3), k4)),
                     6 * dt_inv))
\* The two stages of Heun from the node state of s, each under the same
\* weights W.
StagesHeun(s, W) ==
    LET x0 == s.vars_nodes
        k1 == Field_K(s, x0, W)
        k2 == Field_K(s, VAdd(x0, VDiv(k1, dt_inv_K)), W)
    IN VAdd(x0, VDiv(VAdd(k1, k2), 2 * dt_inv_K))
\* The weights of line 541 and 551 at the node state of s.
Weights_of(s) ==
    [j \in DOMAIN s.weights |->
        IF j \in s.Nodes_adaptive THEN FMul(s.weight, r_local_of(s)[j])
        ELSE s.weights[j]]

\* C28: a pass of a loop of a value moves the node state by the stages of
\* its integrator, every stage under the one coupling input (Rossler) or the
\* one weight vector (Kuramoto) computed from the node state the pass starts
\* from.
C28_PrecomputedInputsHeldAcrossStages ==
    [][LoopStep =>
          IF probe.kind = "Rossler"
          THEN probe'.s.vars_nodes = StagesRK4(probe.s, Icoup_of(probe.s))
          ELSE /\ probe'.s.vars_nodes = StagesHeun(probe.s, Weights_of(probe.s))
               /\ \A j \in DOMAIN probe.s.weights :
                      probe'.s.weights[j] = Weights_of(probe.s)[j]]_vars

\* A Rossler sweep is in a loop of a value that is not 0, at a state from
\* which a pass with the coupling input taken anew at every stage would move
\* the nodes elsewhere than the pass of the code does.
C28_Witness ==
    /\ probe.kind = "Rossler" /\ probe.s.pc = "Relaxing" /\ probe.s.i >= 1
    /\ probe.s.weight # 0
    /\ \E j \in DOMAIN Icoup_of(probe.s) : Icoup_of(probe.s)[j] # 0
    /\ RelaxStep_R_restaged(probe.s).vars_nodes #
           StagesRK4(probe.s, Icoup_of(probe.s))

\* A Kuramoto sweep has taken passes with weights that are finite and not
\* all the value, on a network with edges.
C28_Witness_K ==
    /\ probe.kind = "Kuramoto" /\ probe.s.pc = "Accumulating" /\ probe.s.i >= 1
    /\ probe.s.weight # 0 /\ Len(probe.s.pre_ids) > 0
    /\ ~NonFinite(probe.s.weights)
    /\ probe.s.weights # Ones(probe.s.weight, probe.N)

\* Every node of the sweep has at least one incoming edge, and its degree is
\* the number of its incoming edges.
DegreesAreInDegrees(p) ==
    \A j \in 0 .. p.N - 1 :
        /\ p.s.degrees[j] >= 1
        /\ p.s.degrees[j] =
               Cardinality({e \in 1 .. Len(p.s.post_ids) : p.s.post_ids[e] = j})

\* C29: in a Kuramoto sweep on a network whose every degree is the node's
\* number of incoming edges and at least 1, the local order parameter of
\* every node lies in [0, 1] and, for a value w >= 0, the weight of every
\* adaptive node lies in [0, w].
C29_AdaptiveWeightWithinValue ==
    (probe.kind = "Kuramoto" /\ probe.s.pc # "Init" /\ DegreesAreInDegrees(probe)) =>
        /\ \A j \in 0 .. probe.N - 1 : InUnitInterval(r_local_of(probe.s)[j])
        /\ probe.s.weight >= 0 =>
               \A j \in probe.s.Nodes_adaptive :
                   /\ ~IsNaN(probe.s.weights[j])
                   /\ 0 <= probe.s.weights[j]
                   /\ probe.s.weights[j] <= probe.s.weight

\* A Kuramoto sweep on three nodes has taken passes of a value w > 0 and
\* holds a weight strictly between 0 and w and a node whose local order
\* parameter is 1.
C29_Witness ==
    /\ probe.kind = "Kuramoto" /\ probe.N = 3
    /\ probe.s.pc = "Accumulating" /\ probe.s.i >= 1 /\ probe.s.weight > 0
    /\ DegreesAreInDegrees(probe)
    /\ \E j \in probe.s.Nodes_adaptive :
           0 < probe.s.weights[j] /\ probe.s.weights[j] < probe.s.weight
    /\ \E j \in 0 .. probe.N - 1 : r_local_of(probe.s)[j] = Q

=============================================================================
